---- MODULE Spec2Model ----
(***************************************************************************)
(* Model of the BLE lock service (src/ble_ws_service): the LockManager's   *)
(* debounce/settle engine and fleet-wide BLE semaphore (lock_manager.py),  *)
(* the BleLock adapter's callback fan-out (ble_lock.py) and the WebSocket  *)
(* server's handshake and command dispatch (ws_server.py).                 *)
(*                                                                         *)
(* The program runs on one asyncio event loop: a coroutine runs without    *)
(* interleaving from one await to the next, so every action below is one   *)
(* such run of a task, from the point it is resumed to its next await.     *)
(*                                                                         *)
(* Time is counted in ticks of a quarter of a second.                      *)
(***************************************************************************)
EXTENDS Integers, Sequences, FiniteSets, TLC

\* ------------------------------------------------------------------ bounds
\* Settle tasks created in one run (each state-changing observation makes one).
MaxTasks == 2
\* _on_state tasks created by the adapter callback and not yet run.
MaxQueue == 1
\* The same where the order of the queued tasks is at stake.
MaxBacklog == 2

\* ------------------------------------------------------- program constants
\* LockManager.LOCK_DEBOUNCE_SECONDS = 2.0, in ticks.
LOCK_DEBOUNCE_SECONDS == 8
\* LockManager.DOOR_DEBOUNCE_SECONDS = 0.5, in ticks.
DOOR_DEBOUNCE_SECONDS == 2
\* LockManager.REFRESH_AFTER_SECONDS = 8.0, in ticks.
REFRESH_AFTER_SECONDS == 32

\* The registered devices (LockManager._locks), the callers of the public
\* cmd_lock / cmd_unlock coroutines, and the client connections.
Locks == {"A", "B"}
Callers == {"k1", "k2"}
Clients == {"c1", "c2"}

\* Python's None, for an axis value.
None == "None"
\* yalexs_ble LockStatus / DoorStatus values an adapter reports: the stable
\* ones and one that is neither.
LockStatus == {"LOCKED", "UNLOCKED", "UNKNOWN"}
DoorStatus == {"OPENED", "CLOSED", "UNKNOWN"}

VARIABLES
    lock_state,      \* BleLock._push_lock.lock_state of each device: <<lock, door>>
    ready_obs,       \* _on_state tasks created by _state_changed, in creation order
    critical_state,  \* LockManager._critical_state (a dict)
    pending_state,   \* LockManager._pending_state (a dict)
    pending_reason,  \* LockManager._pending_reason (a dict)
    pending_tasks,   \* LockManager._pending_tasks (a dict), values index `tasks`
    tasks,           \* every settle task created so far, in creation order
    sem_value,       \* LockManager._ble_op_sem._value
    sem_waiters,     \* LockManager._ble_op_sem._waiters whose future is not done
    ops,             \* adapter operations (lock/unlock/refresh) executing now
    callers,         \* coroutines inside cmd_lock / cmd_unlock
    event_listeners, \* LockManager._event_listeners
    events,          \* _run_listener tasks created by _broadcast and not yet run
    last_event,      \* the event _broadcast was last called with
    listener_runs,   \* how the _run_listener tasks of the other subscribers
                     \* went: returned, raised, or still waiting
    burst,           \* per device, in its current burst: state-changing
                     \* observations processed and settle events published
    auth_token,      \* WebSocketServer._auth_token
    conns,           \* the connections: handshake outcome and handler position
    clients,         \* WebSocketServer._clients
    sends,           \* per connection, the event messages whose _safe_send
                     \* task has been created and has not finished
    server,          \* WebSocketServer._server and the position of stop()
    startup          \* LockManager.start(): its position, and what BleLock.start
                     \* has done for each device

vars == <<lock_state, ready_obs, critical_state, pending_state, pending_reason,
          pending_tasks, tasks, sem_value, sem_waiters, ops, callers,
          event_listeners, events, last_event, listener_runs, burst,
          auth_token, conns, clients,
          sends, server, startup>>

busVars == <<event_listeners, events, last_event, listener_runs>>
aggVars == <<critical_state, pending_state, pending_reason, pending_tasks,
             tasks, busVars, burst>>
gateVars == <<sem_value, sem_waiters, ops>>
wsVars == <<auth_token, conns, clients, sends, server>>

\* ----------------------------------------------------------------- helpers
\* An empty dict.
EmptyDict == [k \in {} |-> None]
\* dict.get(key, default)
Get(dict, key, default) == IF key \in DOMAIN dict THEN dict[key] ELSE default
\* dict[key] = value
Put(dict, key, value) ==
    [k \in DOMAIN dict \cup {key} |-> IF k = key THEN value ELSE dict[k]]
\* dict.pop(key, None)
Pop(dict, key) == [k \in DOMAIN dict \ {key} |-> dict[k]]

\* Who awaits the semaphore or runs an adapter operation.
TaskOwner(t) == <<"task", t>>
CallerOwner(k) == <<"caller", k>>
ConnOwner(c) == <<"conn", c>>

RECURSIVE Without(_, _)
\* deque.remove(x) for a deque that holds x at most once
Without(seq, x) ==
    IF seq = <<>> THEN <<>>
    ELSE IF Head(seq) = x THEN Tail(seq)
    ELSE <<Head(seq)>> \o Without(Tail(seq), x)

\* The sequence without its i-th element.
RemoveAt(seq, i) == SubSeq(seq, 1, i - 1) \o SubSeq(seq, i + 1, Len(seq))

\* ------------------------------------------------------------ _on_state
\* lock_status if lock_status in (LOCKED, UNLOCKED) else None
StableLock(lock_status) ==
    IF lock_status \in {"LOCKED", "UNLOCKED"} THEN lock_status ELSE None
\* door_status if door_status in (OPENED, CLOSED) else None
StableDoor(door_status) ==
    IF door_status \in {"OPENED", "CLOSED"} THEN door_status ELSE None

\* A baseline that is always the committed state.
BaselineCommitted(d) ==
    Get(critical_state, d, <<None, None>>)

\* self._pending_state.get(lock_name, self._critical_state.get(lock_name, (None, None)))
Baseline(d) ==
    Get(pending_state, d, Get(critical_state, d, <<None, None>>))

\* A comparison that takes every stable lock value for a change.
LockChangedStable(d, lock_status) ==
    StableLock(lock_status) # None

LockChanged(d, lock_status) ==
    StableLock(lock_status) # None /\ StableLock(lock_status) # Baseline(d)[1]
DoorChanged(d, door_status) ==
    StableDoor(door_status) # None /\ StableDoor(door_status) # Baseline(d)[2]

\* A candidate state that takes whatever the observation says.
MergedRaw(d, lock_status, door_status) ==
    <<StableLock(lock_status), StableDoor(door_status)>>

\* The candidate state written on a state-changing observation.
Merged(d, lock_status, door_status) ==
    << IF StableLock(lock_status) # None THEN StableLock(lock_status)
                                         ELSE Baseline(d)[1],
       IF StableDoor(door_status) # None THEN StableDoor(door_status)
                                         ELSE Baseline(d)[2] >>

\* A reason that stays "door" once a door change set it.
NewReasonSticky(d, lock_status, door_status) ==
    IF DoorChanged(d, door_status) \/ Get(pending_reason, d, None) = "door"
    THEN "door" ELSE "lock"

\* A priority the other way round: the lock axis wins.
NewReasonLockWins(d, lock_status, door_status) ==
    IF LockChanged(d, lock_status) THEN "lock" ELSE "door"

\* "Door wins debounce priority"
NewReason(d, lock_status, door_status) ==
    IF DoorChanged(d, door_status) THEN "door" ELSE "lock"

\* A settle task is alive: created, not finished, no cancellation requested.
Alive(t) == tasks[t].pc # "done" /\ ~tasks[t].cancelled
\* The task awaits asyncio.sleep and its timer has not fired yet.
Sleeping(t) ==
    tasks[t].pc \in {"debounce", "reconcile"} /\ tasks[t].remaining > 0
\* The debounce delay _settle picks from the reason it reads.
SettleDelay(reason) ==
    IF reason = "door" THEN DOOR_DEBOUNCE_SECONDS ELSE LOCK_DEBOUNCE_SECONDS

\* The wait left before the settle of device d fires (all of its delay for a
\* task that has not started yet), -1 with no settle waiting to fire.
RemainingWait(d) ==
    IF d \in DOMAIN pending_tasks /\ ~tasks[pending_tasks[d]].cancelled
    THEN IF tasks[pending_tasks[d]].pc = "debounce"
         THEN tasks[pending_tasks[d]].remaining
         ELSE IF tasks[pending_tasks[d]].pc = "new"
         THEN SettleDelay(Get(pending_reason, d, None))
         ELSE -1
    ELSE -1

\* A cancel() that requests nothing.
NotCancelled(t) == tasks[t]

\* task.cancel(): the task will be resumed with CancelledError at the await
\* it is suspended at (its sleep timer is dropped); what it recorded goes
\* with it.
Cancelled(t) ==
    [ dev |-> tasks[t].dev, pc |-> tasks[t].pc, cancelled |-> TRUE, delay |-> 0,
      remaining |-> 0, schedState |-> <<None, None>>,
      firedState |-> <<None, None>>, lockWait |-> -1,
      commits |-> 0, published |-> 0, refreshes |-> 0, failed |-> FALSE ]

\* A replaced schedule that cancels nothing.
KeepOld(d) == tasks

\* old_task.cancel() for the tracked task that is not done()
CancelOld(d) ==
    IF d \in DOMAIN pending_tasks /\ tasks[pending_tasks[d]].pc # "done"
    THEN [tasks EXCEPT ![pending_tasks[d]] = Cancelled(pending_tasks[d])]
    ELSE tasks

\* The task object asyncio.create_task(_settle()) returns. The fields after
\* `remaining` are records for the properties: the candidate state the task
\* was scheduled with and the one its debounce timer found, what it did, and,
\* while it debounces, the wait a settle with reason "lock" had left when the
\* door change that scheduled this task replaced it (-1 in any other case).
NewTask(d, cand, door_changed) ==
    [ dev |-> d, pc |-> "new", cancelled |-> FALSE, delay |-> 0, remaining |-> 0,
      schedState |-> cand, firedState |-> <<None, None>>,
      lockWait |-> IF door_changed /\ Get(pending_reason, d, None) = "lock"
                   THEN RemainingWait(d) ELSE -1,
      commits |-> 0, published |-> 0, refreshes |-> 0, failed |-> FALSE ]

\* A task that is done(): nothing of it is left but its identity.
Ended(t) ==
    [ dev |-> tasks[t].dev, pc |-> "done", cancelled |-> FALSE, delay |-> 0,
      remaining |-> 0, schedState |-> <<None, None>>,
      firedState |-> <<None, None>>, lockWait |-> -1,
      commits |-> 0, published |-> 0, refreshes |-> 0, failed |-> FALSE ]

\* _schedule_state_settle(lock): cancel the tracked task, create and track a
\* new one. cancel() cancels the future the old task awaits, so one queued for
\* the semaphore no longer counts among its waiters.
ScheduleStateSettle(d, cand, door_changed) ==
    /\ tasks' = Append(CancelOld(d), NewTask(d, cand, door_changed))
    /\ pending_tasks' = Put(pending_tasks, d, Len(tasks) + 1)
    /\ sem_waiters' = IF d \in DOMAIN pending_tasks
                      THEN Without(sem_waiters, TaskOwner(pending_tasks[d]))
                      ELSE sem_waiters

\* A burst of a device starts with a state-changing observation that finds no
\* settle of the device waiting for its debounce to end.
BurstOpen(d) ==
    /\ d \in DOMAIN pending_tasks
    /\ Alive(pending_tasks[d])
    /\ tasks[pending_tasks[d]].pc \in {"new", "debounce"}

\* BleLock.start._state_changed: PushLock has a new state and calls back; the
\* callback creates one _on_state task for the manager's listener.
StateChanged(d, lock_status, door_status) ==
    /\ Len(ready_obs) < MaxQueue
    /\ lock_state' = [lock_state EXCEPT ![d] = <<lock_status, door_status>>]
    /\ ready_obs' = Append(ready_obs,
                           [dev |-> d, lock |-> lock_status, door |-> door_status])
    /\ UNCHANGED <<aggVars, gateVars, callers, wsVars, startup>>

\* A callback whose task is run before the tasks created earlier.
StateChangedFirst(d, lock_status, door_status) ==
    /\ Len(ready_obs) < MaxBacklog
    /\ lock_state' = [lock_state EXCEPT ![d] = <<lock_status, door_status>>]
    /\ ready_obs' = <<[dev |-> d, lock |-> lock_status, door |-> door_status]>>
                        \o ready_obs
    /\ UNCHANGED <<aggVars, gateVars, callers, wsVars, startup>>

\* _state_changed called while _on_state tasks created by earlier calls have
\* not run yet: create_task puts the new task behind them.
StateChangedQueued(d, lock_status, door_status) ==
    /\ Len(ready_obs) < MaxBacklog
    /\ lock_state' = [lock_state EXCEPT ![d] = <<lock_status, door_status>>]
    /\ ready_obs' = Append(ready_obs,
                           [dev |-> d, lock |-> lock_status, door |-> door_status])
    /\ UNCHANGED <<aggVars, gateVars, callers, wsVars, startup>>

\* LockManager.add_lock._on_state, the first task of ready_obs runs: a
\* duplicate is ignored.
OnStateDuplicate ==
    /\ ready_obs # <<>>
    /\ LET o == Head(ready_obs) IN
       /\ ~LockChanged(o.dev, o.lock)
       /\ ~DoorChanged(o.dev, o.door)
    /\ ready_obs' = Tail(ready_obs)
    /\ UNCHANGED <<lock_state, aggVars, gateVars, callers, wsVars, startup>>

\* LockManager.add_lock._on_state for a state-changing observation.
OnStateChange ==
    /\ ready_obs # <<>>
    /\ Len(tasks) < MaxTasks
    /\ LET o == Head(ready_obs)
           d == o.dev
           cand == Merged(d, o.lock, o.door)
       IN
       /\ LockChanged(d, o.lock) \/ DoorChanged(d, o.door)
       /\ pending_state' = Put(pending_state, d, cand)
       /\ pending_reason' = Put(pending_reason, d, NewReason(d, o.lock, o.door))
       /\ ScheduleStateSettle(d, cand, DoorChanged(d, o.door))
       /\ burst' = [burst EXCEPT ![d] =
                       IF BurstOpen(d) THEN [@ EXCEPT !.obs = @ + 1]
                       ELSE [obs |-> 1, events |-> 0]]
    /\ ready_obs' = Tail(ready_obs)
    /\ UNCHANGED <<lock_state, critical_state, busVars, sem_value, ops, callers,
                   wsVars, startup>>

\* ------------------------------------------------------- the BLE semaphore
\* Semaphore.locked()
Locked == sem_value = 0 \/ sem_waiters # <<>>

\* Semaphore.release(): the counter goes up and _wake_up_next hands it to the
\* first waiter, whose future is then done. Yields <<value, waiters, woken>>.
ReleaseTo(waiters) ==
    IF waiters = <<>> THEN <<sem_value + 1, waiters, <<>>>>
    ELSE <<sem_value, Tail(waiters), <<Head(waiters)>>>>

\* The woken waiter's future is done: it leaves acquire() when it next runs.
Wake(woken, tk, cl) ==
    LET tk2 == IF woken # <<>> /\ woken[1][1] = "task"
               THEN [tk EXCEPT ![woken[1][2]].pc = "granted"] ELSE tk
        cl2 == IF woken # <<>> /\ woken[1][1] = "caller"
               THEN [cl EXCEPT ![woken[1][2]].pc = "granted"] ELSE cl
    IN <<tk2, cl2>>

\* A gate that lets every coroutine in.
EnterUnguarded == TRUE

\* _with_ble_lock, entering `async with self._ble_op_sem`: may the coroutine
\* go on at once?
EnterGate == ~Locked

\* _with_ble_lock, leaving `async with self._ble_op_sem` by owner `who`, whose
\* operation ends; tk and cl are tasks and callers as the step leaves them.
LeaveGate(who, tk, cl) ==
    LET r == ReleaseTo(sem_waiters)
        w == Wake(r[3], tk, cl)
    IN
    /\ sem_value' = r[1]
    /\ sem_waiters' = r[2]
    /\ ops' = {o \in ops : o.owner # who}
    /\ tasks' = w[1]
    /\ callers' = w[2]

\* An adapter operation (BleLock.lock / unlock / refresh) in flight.
Op(d, op, who, gated) == [dev |-> d, op |-> op, owner |-> who, gated |-> gated]

\* ----------------------------------------------------------- settle tasks
\* A finally block that clears the device's entries whoever the task is.
CleanupAlways(t) ==
    /\ pending_tasks' = Pop(pending_tasks, tasks[t].dev)
    /\ pending_reason' = Pop(pending_reason, tasks[t].dev)

\* finally: only the currently-tracked task is allowed to clean up
Cleanup(t) ==
    LET d == tasks[t].dev IN
    IF Get(pending_tasks, d, 0) = t
    THEN /\ pending_tasks' = Pop(pending_tasks, d)
         /\ pending_reason' = Pop(pending_reason, d)
    ELSE UNCHANGED <<pending_tasks, pending_reason>>

\* An event loop that resumes cancelled tasks like any other.
ResumableAlways(t) == TRUE

\* The event loop resumes the task where it awaits; a task whose
\* cancellation was requested is resumed with CancelledError instead.
Resumable(t) == ~tasks[t].cancelled

\* _settle is first run: it reads the reason and sleeps for the debounce delay.
SettleStart(t) ==
    /\ tasks[t].pc = "new"
    /\ Resumable(t)
    /\ LET delay == SettleDelay(Get(pending_reason, tasks[t].dev, None))
       IN tasks' = [tasks EXCEPT ![t].pc = "debounce", ![t].delay = delay,
                                 ![t].remaining = delay]
    /\ UNCHANGED <<lock_state, ready_obs, critical_state, pending_state,
                   pending_reason, pending_tasks, busVars, burst, gateVars,
                   callers, wsVars, startup>>

\* lock.snapshot() with the settled axes written over it
Snapshot(d, stable) ==
    [ lock_name |-> d,
      locked |-> IF stable[1] # None THEN stable[1] ELSE lock_state[d][1],
      door |-> IF stable[2] # None THEN stable[2] ELSE lock_state[d][2] ]

\* A _broadcast that stops after its first listener.
BroadcastToFirst(event) ==
    /\ last_event' = event
    /\ events' = IF event_listeners = <<>> THEN events
                 ELSE Append(events, [listener |-> Head(event_listeners),
                                      event |-> event])
    /\ UNCHANGED <<event_listeners, listener_runs>>

\* LockManager._broadcast(event): nothing without listeners, else one
\* _run_listener task for each, created in registration order and not
\* awaited.
Broadcast(event) ==
    /\ last_event' = event
    /\ events' = events \o [i \in DOMAIN event_listeners |->
                              [listener |-> event_listeners[i], event |-> event]]
    /\ UNCHANGED <<event_listeners, listener_runs>>

\* A commit that reads the adapter's current state, not the candidate.
SettledStateRaw(d) == <<StableLock(lock_state[d][1]), StableDoor(lock_state[d][2])>>

\* stable_lock, stable_door = self._pending_state.get(lock_name, (None, None))
SettledState(d) == Get(pending_state, d, <<None, None>>)

\* _settle wakes from the debounce sleep: commit, publish (_broadcast creates
\* one _run_listener task for the server's listener), sleep again.
SettleCommit(t) ==
    /\ tasks[t].pc = "debounce"
    /\ tasks[t].remaining = 0
    /\ Resumable(t)
    /\ LET d == tasks[t].dev
           stable == SettledState(d)
       IN
       /\ critical_state' = Put(critical_state, d, stable)
       /\ Broadcast([type |-> "lock_state", lock_name |-> d,
                     state |-> Snapshot(d, stable),
                     seq |-> last_event.seq + 1])
       /\ burst' = [burst EXCEPT ![d].events = @ + 1]
       /\ tasks' = [tasks EXCEPT ![t].pc = "reconcile",
                                 ![t].remaining = REFRESH_AFTER_SECONDS,
                                 ![t].lockWait = -1,
                                 ![t].commits = @ + 1,
                                 ![t].published = @ + 1]
    /\ UNCHANGED <<lock_state, ready_obs, pending_state, pending_reason,
                   pending_tasks, gateVars, callers, wsVars, startup>>

\* _settle wakes from the debounce sleep and lock.snapshot() raises: the
\* candidate is committed already, `except Exception` logs the failure (kept
\* in the task's `failed`), nothing is published, and the task ends through
\* its finally block.
SettleSnapshotFails(t) ==
    /\ tasks[t].pc = "debounce"
    /\ tasks[t].remaining = 0
    /\ Resumable(t)
    /\ critical_state' = Put(critical_state, tasks[t].dev,
                             SettledState(tasks[t].dev))
    /\ tasks' = [tasks EXCEPT ![t] = [Ended(t) EXCEPT !.failed = TRUE]]
    /\ Cleanup(t)
    /\ UNCHANGED <<lock_state, ready_obs, pending_state, busVars, burst,
                   gateVars, callers, wsVars, startup>>

\* _settle wakes from the reconciliation sleep and calls cmd_refresh, which
\* takes the semaphore and starts lock.refresh(), or queues for the semaphore.
SettleRefresh(t) ==
    /\ tasks[t].pc = "reconcile"
    /\ tasks[t].remaining = 0
    /\ Resumable(t)
    /\ IF EnterGate
       THEN /\ sem_value' = sem_value - 1
            /\ ops' = ops \cup {Op(tasks[t].dev, "refresh", TaskOwner(t), TRUE)}
            /\ tasks' = [tasks EXCEPT ![t].pc = "refreshing",
                                      ![t].refreshes = @ + 1]
            /\ UNCHANGED sem_waiters
       ELSE /\ sem_waiters' = Append(sem_waiters, TaskOwner(t))
            /\ tasks' = [tasks EXCEPT ![t].pc = "gatewait",
                                      ![t].refreshes = @ + 1]
            /\ UNCHANGED <<sem_value, ops>>
    /\ UNCHANGED <<lock_state, ready_obs, critical_state, pending_state,
                   pending_reason, pending_tasks, busVars, burst, callers, wsVars, startup>>

\* The settle task was handed the semaphore: lock.refresh() starts.
SettleGranted(t) ==
    /\ tasks[t].pc = "granted"
    /\ Resumable(t)
    /\ ops' = ops \cup {Op(tasks[t].dev, "refresh", TaskOwner(t), TRUE)}
    /\ tasks' = [tasks EXCEPT ![t].pc = "refreshing"]
    /\ UNCHANGED <<lock_state, ready_obs, critical_state, pending_state,
                   pending_reason, pending_tasks, busVars, burst, sem_value,
                   sem_waiters, callers, wsVars, startup>>

\* A settle task that goes back to its reconciliation sleep after the refresh.
SettleRefreshAgain(t) ==
    /\ tasks[t].pc = "refreshing"
    /\ Resumable(t)
    /\ LeaveGate(TaskOwner(t),
                 [tasks EXCEPT ![t].pc = "reconcile",
                               ![t].remaining = REFRESH_AFTER_SECONDS], callers)
    /\ UNCHANGED <<lock_state, ready_obs, critical_state, pending_state,
                   pending_reason, pending_tasks, busVars, burst, wsVars, startup>>

\* lock.refresh() returns or raises (the failure is logged): the semaphore is
\* released and the task ends through its finally block.
SettleRefreshDone(t) ==
    /\ tasks[t].pc = "refreshing"
    /\ Resumable(t)
    /\ LeaveGate(TaskOwner(t), [tasks EXCEPT ![t] = Ended(t)], callers)
    /\ Cleanup(t)
    /\ UNCHANGED <<lock_state, ready_obs, critical_state, pending_state,
                   busVars, burst, wsVars, startup>>

\* A failed refresh that leaves _settle as it is: the semaphore stays taken
\* and the tracking entry stays.
SettleRefreshFailsHard(t) ==
    /\ tasks[t].pc = "refreshing"
    /\ Resumable(t)
    /\ tasks' = [tasks EXCEPT ![t] = [Ended(t) EXCEPT !.failed = TRUE]]
    /\ UNCHANGED <<lock_state, ready_obs, critical_state, pending_state,
                   pending_reason, pending_tasks, busVars, burst, gateVars,
                   callers, wsVars, startup>>

\* lock.refresh() raises: `async with` releases the semaphore, `except
\* Exception` logs the failure (kept in the task's `failed`), and the task
\* ends through its finally block.
SettleRefreshFails(t) ==
    /\ tasks[t].pc = "refreshing"
    /\ Resumable(t)
    /\ LeaveGate(TaskOwner(t),
                 [tasks EXCEPT ![t] = [Ended(t) EXCEPT !.failed = TRUE]], callers)
    /\ Cleanup(t)
    /\ UNCHANGED <<lock_state, ready_obs, critical_state, pending_state,
                   busVars, burst, wsVars, startup>>

\* A cancellation that ends the task and keeps what it held of the semaphore.
SettleCancelledLeaking(t) ==
    /\ tasks[t].pc # "done"
    /\ ~Resumable(t)
    /\ tasks' = [tasks EXCEPT ![t] = Ended(t)]
    /\ ops' = {o \in ops : o.owner # TaskOwner(t)}
    /\ sem_waiters' = Without(sem_waiters, TaskOwner(t))
    /\ IF tasks[t].pc = "new" THEN UNCHANGED <<pending_tasks, pending_reason>>
       ELSE Cleanup(t)
    /\ UNCHANGED <<lock_state, ready_obs, critical_state, pending_state,
                   busVars, burst, sem_value, callers, wsVars, startup>>

\* A cancelled task is resumed with CancelledError. One that never ran ends
\* without running any of _settle; otherwise the await it was suspended at
\* raises, the semaphore is given back if it was held or handed over, and the
\* finally block runs.
SettleCancelled(t) ==
    /\ tasks[t].pc # "done"
    /\ ~Resumable(t)
    /\ LET ended == [tasks EXCEPT ![t] = Ended(t)]
       IN
       CASE tasks[t].pc = "new" ->
              /\ tasks' = ended
              /\ UNCHANGED <<pending_tasks, pending_reason, gateVars, callers>>
         [] tasks[t].pc \in {"debounce", "reconcile"} ->
              /\ tasks' = ended
              /\ Cleanup(t)
              /\ UNCHANGED <<gateVars, callers>>
         [] tasks[t].pc = "gatewait" ->
              /\ tasks' = ended
              /\ sem_waiters' = Without(sem_waiters, TaskOwner(t))
              /\ Cleanup(t)
              /\ UNCHANGED <<sem_value, ops, callers>>
         [] tasks[t].pc \in {"granted", "refreshing"} ->
              /\ LeaveGate(TaskOwner(t), ended, callers)
              /\ Cleanup(t)
    /\ UNCHANGED <<lock_state, ready_obs, critical_state, pending_state,
                   busVars, burst, wsVars, startup>>

\* ------------------------------------------------- cmd_lock / cmd_unlock
\* cmd_lock(d) / cmd_unlock(d) is called: _with_ble_lock takes the semaphore
\* and starts the adapter operation, or queues for the semaphore.
CmdCall(k, op, d) ==
    /\ callers[k].pc = "idle"
    /\ IF EnterGate
       THEN /\ sem_value' = sem_value - 1
            /\ ops' = ops \cup {Op(d, op, CallerOwner(k), TRUE)}
            /\ callers' = [callers EXCEPT ![k] = [pc |-> "running", op |-> op,
                                                  dev |-> d]]
            /\ UNCHANGED sem_waiters
       ELSE /\ sem_waiters' = Append(sem_waiters, CallerOwner(k))
            /\ callers' = [callers EXCEPT ![k] = [pc |-> "gatewait", op |-> op,
                                                  dev |-> d]]
            /\ UNCHANGED <<sem_value, ops>>
    /\ UNCHANGED <<lock_state, ready_obs, aggVars, wsVars, startup>>

\* The caller was handed the semaphore: its adapter operation starts.
CmdGranted(k) ==
    /\ callers[k].pc = "granted"
    /\ ops' = ops \cup {Op(callers[k].dev, callers[k].op, CallerOwner(k), TRUE)}
    /\ callers' = [callers EXCEPT ![k].pc = "running"]
    /\ UNCHANGED <<lock_state, ready_obs, aggVars, sem_value, sem_waiters, wsVars, startup>>

\* The adapter operation returns or raises: the semaphore is released.
CmdDone(k) ==
    /\ callers[k].pc = "running"
    /\ LeaveGate(CallerOwner(k), tasks,
                 [callers EXCEPT ![k] = [pc |-> "idle", op |-> None, dev |-> None]])
    /\ UNCHANGED <<lock_state, ready_obs, critical_state, pending_state,
                   pending_reason, pending_tasks, busVars, burst, wsVars, startup>>

\* -------------------------------------------------------------------- time
\* CandidateState as a debounce timer that fires now finds it.
Fired(t) ==
    IF tasks[t].pc = "debounce" THEN SettledState(tasks[t].dev)
    ELSE tasks[t].firedState

\* The timer of one sleeping task fires, however long that took.
TimerFires(t) ==
    /\ Sleeping(t)
    /\ tasks' = [tasks EXCEPT ![t].remaining = 0, ![t].firedState = Fired(t)]
    /\ UNCHANGED <<lock_state, ready_obs, critical_state, pending_state,
                   pending_reason, pending_tasks, busVars, burst, gateVars,
                   callers, wsVars, startup>>

\* Some coroutine can run now without any time passing.
Runnable ==
    \/ ready_obs # <<>>
    \/ events # <<>>
    \/ \E t \in DOMAIN tasks :
          /\ tasks[t].pc # "done"
          /\ \/ tasks[t].cancelled
             \/ tasks[t].pc \in {"new", "granted"}
             \/ tasks[t].pc \in {"debounce", "reconcile"} /\ tasks[t].remaining = 0
    \/ \E k \in Callers : callers[k].pc = "granted"

\* A quarter of a second passes: the event loop is idle, and every running
\* timer is a tick nearer.
Tick ==
    /\ ~Runnable
    /\ \E t \in DOMAIN tasks : Sleeping(t)
    /\ tasks' = [t \in DOMAIN tasks |->
                   IF Sleeping(t)
                   THEN [tasks[t] EXCEPT
                           !.remaining = @ - 1,
                           !.firedState = IF tasks[t].remaining = 1
                                          THEN Fired(t) ELSE @]
                   ELSE tasks[t]]
    /\ UNCHANGED <<lock_state, ready_obs, critical_state, pending_state,
                   pending_reason, pending_tasks, busVars, burst, gateVars,
                   callers, wsVars, startup>>

\* ------------------------------------------------------ WebSocket server
\* Text is a sequence of characters. An optional text (a header that may be
\* absent, a token that may be None) says whether it is there.
Some(text) == [given |-> TRUE, text |-> text]
Absent == [given |-> FALSE, text |-> <<>>]
\* Python truthiness of an optional text: None and "" are false.
Truthy(opt) == opt.given /\ opt.text # <<>>

BearerPrefix == <<"B", "e", "a", "r", "e", "r", " ">>
Whitespace == {" ", "\t"}

\* str.startswith(prefix)
StartsWith(text, prefix) ==
    /\ Len(text) >= Len(prefix)
    /\ SubSeq(text, 1, Len(prefix)) = prefix
\* str.removeprefix(prefix)
RemovePrefix(text, prefix) ==
    IF StartsWith(text, prefix)
    THEN SubSeq(text, Len(prefix) + 1, Len(text)) ELSE text

RECURSIVE LStrip(_)
LStrip(text) ==
    IF text # <<>> /\ Head(text) \in Whitespace THEN LStrip(Tail(text)) ELSE text
RECURSIVE RStrip(_)
RStrip(text) ==
    IF text # <<>> /\ text[Len(text)] \in Whitespace
    THEN RStrip(SubSeq(text, 1, Len(text) - 1)) ELSE text
\* str.strip()
Strip(text) == RStrip(LStrip(text))

\* token = auth_header.removeprefix("Bearer ").strip()
BearerToken(text) == Strip(RemovePrefix(text, BearerPrefix))

\* A handshake check that does not look at the scheme of the header.
ProcessRequestAnyScheme(token, auth_header) ==
    IF ~Truthy(token) THEN 0
    ELSE IF ~Truthy(auth_header) THEN 401
    ELSE IF BearerToken(auth_header.text) # token.text THEN 403
    ELSE 0

\* WebSocketServer._process_request: 0 stands for None (go on with the
\* handshake), otherwise the HTTP status of the rejection.
ProcessRequest(token, auth_header) ==
    IF ~Truthy(token) THEN 0
    ELSE IF ~Truthy(auth_header) \/ ~StartsWith(auth_header.text, BearerPrefix)
         THEN 401
    ELSE IF BearerToken(auth_header.text) # token.text THEN 403
    ELSE 0

\* The frames a client sends: text that is no JSON, JSON that is no object,
\* or an object with the fields msg.get() finds (None when missing).
Frame(json, type, request_id, command, lock_name) ==
    [ json |-> json, type |-> type, request_id |-> request_id,
      command |-> command, lock_name |-> lock_name ]
NoFrame == Frame("none", None, None, None, None)

\* A connection slot nobody has connected on yet. `frame` is the frame the
\* handler is handling or has answered with the message in `out`, `out` the
\* message the client was sent last, `code` the
\* close code the server closed it with.
NoConn ==
    [ state |-> "connecting", status |-> 0, header |-> Absent, pc |-> "none",
      request_id |-> None, command |-> None, lock_name |-> None,
      frame |-> NoFrame, out |-> [type |-> "none"], code |-> 0 ]

\* A response that leaves the request id out.
ResponseAnonymous(request_id, status, error, data) ==
    [ type |-> "response", request_id |-> None, status |-> status,
      error |-> error, data |-> data ]

\* _send_ok / _send_error through _safe_send: the message goes to the client.
Response(request_id, status, error, data) ==
    [ type |-> "response", request_id |-> request_id, status |-> status,
      error |-> error, data |-> data ]
NoData == [kind |-> "none"]

\* A handshake whose rejected connections join the client set all the same.
HandshakeJoinsAll(c, auth_header) ==
    /\ server.listening
    /\ conns[c].state = "connecting"
    /\ LET status == ProcessRequest(auth_token, auth_header) IN
       IF status = 0
       THEN conns' = [conns EXCEPT ![c].state = "open", ![c].pc = "recv",
                                   ![c].header = auth_header]
       ELSE conns' = [conns EXCEPT ![c].state = "rejected",
                                   ![c].status = status,
                                   ![c].header = auth_header]
    /\ clients' = clients \cup {c}
    /\ UNCHANGED <<lock_state, ready_obs, aggVars, gateVars, callers, auth_token, startup,
                   sends, server>>

\* A client connects on slot c with the Authorization header `auth_header`:
\* serve() calls _process_request, and _handler only when it returned None.
Handshake(c, auth_header) ==
    /\ server.listening
    /\ conns[c].state = "connecting"
    /\ LET status == ProcessRequest(auth_token, auth_header) IN
       IF status = 0
       THEN /\ conns' = [conns EXCEPT ![c].state = "open", ![c].pc = "recv",
                                      ![c].header = auth_header]
            /\ clients' = clients \cup {c}
       ELSE /\ conns' = [conns EXCEPT ![c].state = "rejected",
                                      ![c].status = status,
                                      ![c].header = auth_header]
            /\ UNCHANGED clients
    /\ UNCHANGED <<lock_state, ready_obs, aggVars, gateVars, callers, auth_token, startup,
                   sends, server>>

\* BleLock.snapshot(), the axes of it
AdapterSnapshot(d) ==
    [kind |-> "snapshot", lock_name |-> d, locked |-> lock_state[d][1],
     door |-> lock_state[d][2]]

\* A dispatch that answers an unrecognized command with success.
ReplyLenient(f) ==
    IF f.type # "command"
    THEN Response(f.request_id, "error", "type_must_be_command", NoData)
    ELSE IF f.command = "list_locks"
    THEN Response(f.request_id, "ok", None, [kind |-> "locks", locks |-> Locks])
    ELSE IF f.command \in {"lock", "unlock", "get_state"}
            /\ f.lock_name \in {None, ""}
    THEN Response(f.request_id, "error", "lock_name is required", NoData)
    ELSE IF f.command \in {"lock", "unlock", "get_state"} /\ f.lock_name \notin Locks
    THEN Response(f.request_id, "error", "'" \o f.lock_name \o "'", NoData)
    ELSE IF f.command = "get_state"
    THEN Response(f.request_id, "ok", None, AdapterSnapshot(f.lock_name))
    ELSE Response(f.request_id, "ok", None, NoData)

\* The response _handle_message sends at once, for every frame but a lock or
\* unlock of a registered device.
Reply(f) ==
    IF f.type # "command"
    THEN Response(f.request_id, "error", "type_must_be_command", NoData)
    ELSE IF f.command = "list_locks"
    THEN Response(f.request_id, "ok", None, [kind |-> "locks", locks |-> Locks])
    ELSE IF f.command \in {"lock", "unlock", "get_state"}
            /\ f.lock_name \in {None, ""}
    THEN Response(f.request_id, "error", "lock_name is required", NoData)
    ELSE IF f.command \in {"lock", "unlock", "get_state"} /\ f.lock_name \notin Locks
    THEN Response(f.request_id, "error", "'" \o f.lock_name \o "'", NoData)
    ELSE IF f.command = "get_state"
    THEN Response(f.request_id, "ok", None, AdapterSnapshot(f.lock_name))
    ELSE Response(f.request_id, "error", "unknown_command: " \o f.command, NoData)

\* The adapter operation a lock / unlock command starts, as _handle_message
\* starts it: self._lock_manager.get_lock(lock_name).lock() / .unlock()
CommandOp(c, f) == Op(f.lock_name, f.command, ConnOwner(c), FALSE)

\* A handler that reads the next frame while a command is still executing.
HandleFrameConcurrent(c, f) ==
    /\ conns[c].state = "open"
    /\ conns[c].pc \in {"recv", "op"}
    /\ CASE f.json = "invalid" ->
              /\ conns' = [conns EXCEPT
                             ![c].frame = f,
                             ![c].out = Response(None, "error", "invalid_json", NoData)]
              /\ UNCHANGED <<clients, ops>>
         [] f.json = "scalar" ->
              \* msg.get raises: _handler logs it and ends
              /\ conns' = [conns EXCEPT ![c].state = "closed", ![c].pc = "none",
                                        ![c].frame = f]
              /\ clients' = clients \ {c}
              /\ UNCHANGED ops
         [] f.json = "object" /\ f.type = "command"
                /\ f.command \in {"lock", "unlock"} /\ f.lock_name \in Locks ->
              /\ ops' = ops \cup {CommandOp(c, f)}
              /\ conns' = [conns EXCEPT ![c].pc = "op", ![c].frame = f,
                                        ![c].request_id = f.request_id,
                                        ![c].command = f.command,
                                        ![c].lock_name = f.lock_name]
              /\ UNCHANGED clients
         [] OTHER ->
              /\ conns' = [conns EXCEPT ![c].frame = f, ![c].out = Reply(f)]
              /\ UNCHANGED <<clients, ops>>
    /\ UNCHANGED <<lock_state, ready_obs, aggVars, sem_value, sem_waiters,
                   callers, auth_token, startup, sends, server>>

\* _handler reads the next frame of connection c and handles it as far as
\* the next await that waits for something outside.
HandleFrame(c, f) ==
    /\ conns[c].state = "open"
    /\ conns[c].pc = "recv"
    /\ CASE f.json = "invalid" ->
              /\ conns' = [conns EXCEPT
                             ![c].frame = f,
                             ![c].out = Response(None, "error", "invalid_json", NoData)]
              /\ UNCHANGED <<clients, ops>>
         [] f.json = "scalar" ->
              \* msg.get raises: _handler logs it and ends
              /\ conns' = [conns EXCEPT ![c].state = "closed", ![c].pc = "none",
                                        ![c].frame = f]
              /\ clients' = clients \ {c}
              /\ UNCHANGED ops
         [] f.json = "object" /\ f.type = "command"
                /\ f.command \in {"lock", "unlock"} /\ f.lock_name \in Locks ->
              /\ ops' = ops \cup {CommandOp(c, f)}
              /\ conns' = [conns EXCEPT ![c].pc = "op", ![c].frame = f,
                                        ![c].request_id = f.request_id,
                                        ![c].command = f.command,
                                        ![c].lock_name = f.lock_name]
              /\ UNCHANGED clients
         [] OTHER ->
              /\ conns' = [conns EXCEPT ![c].frame = f, ![c].out = Reply(f)]
              /\ UNCHANGED <<clients, ops>>
    /\ UNCHANGED <<lock_state, ready_obs, aggVars, sem_value, sem_waiters,
                   callers, auth_token, startup, sends, server>>

\* The adapter's lock() / unlock() returns (ok) or raises: the response goes
\* out and the handler reads on. On a connection that is gone _safe_send
\* catches ConnectionClosed and discards the connection.
CommandDone(c, ok) ==
    /\ conns[c].pc = "op"
    /\ ops' = {o \in ops : o.owner # ConnOwner(c)}
    /\ conns' = [conns EXCEPT
                   ![c].pc = "recv",
                   ![c].request_id = None, ![c].command = None,
                   ![c].lock_name = None,
                   ![c].out =
                       IF conns[c].state # "open"
                       THEN @
                       ELSE IF ok
                       THEN Response(conns[c].request_id, "ok", None,
                                     [kind |-> "lock_name",
                                      lock_name |-> conns[c].lock_name])
                       ELSE Response(conns[c].request_id, "error", "ble_error",
                                     NoData)]
    /\ clients' = IF conns[c].state # "open" THEN clients \ {c} ELSE clients
    /\ UNCHANGED <<lock_state, ready_obs, aggVars, sem_value, sem_waiters,
                   callers, auth_token, startup, sends, server>>

\* The connection of c is lost (the peer went away or the connection was
\* closed) while its handler is still running: from now on a send on it
\* raises ConnectionClosed.
ConnectionLost(c) ==
    /\ conns[c].state = "open"
    /\ conns' = [conns EXCEPT ![c].state = "lost"]
    /\ UNCHANGED <<lock_state, ready_obs, aggVars, gateVars, callers, auth_token, startup,
                   clients, sends, server>>

\* The connection is gone while _handler waits for a frame: the loop ends
\* with ConnectionClosed and the finally block discards the connection.
Disconnect(c) ==
    /\ conns[c].state \in {"open", "lost"}
    /\ conns[c].pc = "recv"
    /\ conns' = [conns EXCEPT ![c].state = "closed", ![c].pc = "none",
                              ![c].frame = NoFrame]
    /\ clients' = clients \ {c}
    /\ UNCHANGED <<lock_state, ready_obs, aggVars, gateVars, callers, auth_token, startup,
                   sends, server>>

\* The "event" message _handle_lock_event builds from a manager event (seq
\* numbers the events in the order _broadcast was called with them).
EventMessage(e) ==
    [type |-> "event", event |-> "lock_state", lock_name |-> e.lock_name,
     state |-> e.state, seq |-> e.seq]

\* A relay that reaches one connection only.
RecipientsOne == IF clients = {} THEN {} ELSE {CHOOSE c \in clients : TRUE}

\* list(self._clients): the connections _handle_lock_event sends to.
Recipients == clients

\* _run_listener runs the server's listener, _handle_lock_event, on the
\* oldest event: nothing without clients, else gather() creates one
\* _safe_send task per connection in _clients and waits for them all.
RunListener ==
    /\ events # <<>>
    /\ Head(events).listener = "_handle_lock_event"
    /\ events' = Tail(events)
    /\ sends' = [c \in Clients |->
                   IF c \in Recipients
                   THEN Append(sends[c], EventMessage(Head(events).event))
                   ELSE sends[c]]
    /\ UNCHANGED <<lock_state, ready_obs, critical_state, pending_state,
                   pending_reason, pending_tasks, tasks, burst, gateVars,
                   callers, auth_token, startup, conns, clients, server,
                   event_listeners, last_event, listener_runs>>

\* register_event_listener(listener)
RegisterEventListener(l) ==
    /\ \A i \in DOMAIN event_listeners : event_listeners[i] # l
    /\ event_listeners' = Append(event_listeners, l)
    /\ UNCHANGED <<lock_state, ready_obs, critical_state, pending_state,
                   pending_reason, pending_tasks, tasks, burst, gateVars,
                   callers, wsVars, startup, events, last_event, listener_runs>>

\* _run_listener runs another subscriber on the oldest event: the listener
\* raises (caught and logged by _run_listener) or waits for something that
\* never comes; what it does when it returns is its own business.
RunSubscriber(outcome) ==
    /\ events # <<>>
    /\ Head(events).listener # "_handle_lock_event"
    /\ events' = Tail(events)
    /\ listener_runs' = listener_runs \cup
                          {[listener |-> Head(events).listener,
                            seq |-> Head(events).event.seq,
                            outcome |-> outcome]}
    /\ UNCHANGED <<lock_state, ready_obs, critical_state, pending_state,
                   pending_reason, pending_tasks, tasks, burst, gateVars,
                   callers, wsVars, startup, event_listeners, last_event>>

\* A connection that sends its newest waiting message first.
Newest(q) == Len(q)

\* The message of a connection that goes out next: the _safe_send tasks run
\* in the order they were created and a connection writes in call order.
Oldest(q) == 1

\* A failed send that empties the client set.
DropAll(c) == {}

\* _safe_send: except ConnectionClosed / Exception: self._clients.discard(ws)
DropClient(c) == clients \ {c}

\* A _safe_send task of connection c runs ws.send(msg): the message goes out,
\* or the connection is gone, the send raises and the connection is discarded.
\* Either way the task ends normally, and gather() returns once the last has.
Send(c) ==
    /\ sends[c] # <<>>
    /\ LET i == Oldest(sends[c])
           msg == sends[c][i]
       IN
       /\ sends' = [sends EXCEPT ![c] = RemoveAt(@, i)]
       /\ IF conns[c].state = "open"
          THEN /\ conns' = [conns EXCEPT
                               ![c].out = msg,
                               ![c].frame = IF conns[c].pc = "recv"
                                            THEN NoFrame ELSE @]
               /\ UNCHANGED clients
          ELSE /\ clients' = DropClient(c)
               /\ UNCHANGED conns
    /\ UNCHANGED <<lock_state, ready_obs, aggVars, gateVars, callers, auth_token, startup,
                   server>>

\* stop(): self._server.close() closes the listener, and stop waits in
\* wait_closed(). (What the websockets server does to the open connections
\* meanwhile shows here as connections that are lost and handlers that end.)
StopListener ==
    /\ server.pc = "run"
    /\ server' = [server EXCEPT !.listening = FALSE, !.pc = "wait_closed"]
    /\ UNCHANGED <<lock_state, ready_obs, aggVars, gateVars, callers, auth_token, startup,
                   conns, clients, sends>>

\* stop() after wait_closed(): without clients it returns; else it copies
\* _clients, clears the set and gathers one _safe_close task per connection.
StopCopy ==
    /\ server.pc = "wait_closed"
    /\ IF clients = {}
       THEN /\ server' = [server EXCEPT !.pc = "done"]
            /\ UNCHANGED clients
       ELSE /\ server' = [server EXCEPT !.pc = "closing", !.closing = clients]
            /\ clients' = {}
    /\ UNCHANGED <<lock_state, ready_obs, aggVars, gateVars, callers, auth_token, startup,
                   conns, sends>>

\* A close that raises and takes the other close tasks with it.
StopCloseAborting(c, ok) ==
    /\ server.pc = "closing"
    /\ c \in server.closing
    /\ server' = [server EXCEPT !.closing = IF ok THEN @ \ {c} ELSE {},
                                !.failed = IF ok THEN @ ELSE @ \cup {c}]
    /\ conns' = IF ok /\ conns[c].state = "open"
                THEN [conns EXCEPT ![c].state = "lost", ![c].code = 1001]
                ELSE conns
    /\ clients' = clients \ {c}
    /\ UNCHANGED <<lock_state, ready_obs, aggVars, gateVars, callers, auth_token, startup,
                   sends>>

\* The _safe_close task of connection c: ws.close(code=1001, ...) closes the
\* connection (its handler, still running, will find it gone), or raises,
\* which is logged and leaves the connection as it was (kept in `failed`);
\* either way the connection is discarded from _clients.
StopClose(c, ok) ==
    /\ server.pc = "closing"
    /\ c \in server.closing
    /\ server' = [server EXCEPT !.closing = @ \ {c},
                                !.failed = IF ok THEN @ ELSE @ \cup {c}]
    /\ conns' = IF ok /\ conns[c].state = "open"
                THEN [conns EXCEPT ![c].state = "lost", ![c].code = 1001]
                ELSE conns
    /\ clients' = clients \ {c}
    /\ UNCHANGED <<lock_state, ready_obs, aggVars, gateVars, callers, auth_token, startup,
                   sends>>

\* gather() returns when the last _safe_close task has ended: stop returns.
StopReturn ==
    /\ server.pc = "closing"
    /\ server.closing = {}
    /\ server' = [server EXCEPT !.pc = "done"]
    /\ UNCHANGED <<lock_state, ready_obs, aggVars, gateVars, callers, auth_token, startup,
                   conns, clients, sends>>

\* ------------------------------------------------------------------ startup
\* LockManager._locks.values(): the devices in the order main() added them.
LockOrder == <<"A", "B">>

\* How the wait for the first update inside BleLock.start can end: the
\* update arrives, TimeoutError, AuthError, another YaleXSBLEError, or an
\* exception that is none of these.
WaitOutcomes == {"first_update", "timeout", "auth_error", "device_error",
                 "other_error"}
\* The failures BleLock.start catches and logs.
Caught == {"timeout", "auth_error", "device_error"}

\* Before LockManager.start() and after it has returned with every device
\* ready.
NotStarted ==
    [ pc |-> "idle", waiting |-> None, outcome |-> <<>>,
      first_update_waited |-> {}, callbacks |-> {}, left_pending |-> {} ]
Started ==
    [ pc |-> "done", waiting |-> None,
      outcome |-> [i \in DOMAIN LockOrder |-> "first_update"],
      first_update_waited |-> Locks, callbacks |-> Locks,
      left_pending |-> {} ]

\* LockManager.start() up to its loop: the scanner is created and started,
\* or its start raises and so does start().
ManagerStart(ok) ==
    /\ startup.pc = "idle"
    /\ startup' = [startup EXCEPT !.pc = IF ok THEN "locks" ELSE "raised"]
    /\ UNCHANGED <<lock_state, ready_obs, aggVars, gateVars, callers, wsVars>>

\* The loop calls start() of the next device, which runs up to its wait for
\* the first update: stale connections are closed, the callback is
\* registered, PushLock is started. An exception of the first or the last
\* leaves BleLock.start and LockManager.start.
LockStartBegin(how) ==
    /\ startup.pc = "locks"
    /\ startup.waiting = None
    /\ Len(startup.outcome) < Len(LockOrder)
    /\ LET d == LockOrder[Len(startup.outcome) + 1] IN
       startup' =
          IF how = "ok"
          THEN [startup EXCEPT !.waiting = d, !.callbacks = @ \cup {d}]
          ELSE [startup EXCEPT
                  !.pc = "raised",
                  !.outcome = Append(@, how),
                  !.callbacks = IF how = "start_failed" THEN @ \cup {d} ELSE @]
    /\ UNCHANGED <<lock_state, ready_obs, aggVars, gateVars, callers, wsVars>>

\* A wait whose failure is not caught.
LockStartEndRaising(outcome) ==
    /\ startup.pc = "locks"
    /\ startup.waiting # None
    /\ startup' =
          [startup EXCEPT
             !.waiting = None,
             !.outcome = Append(@, outcome),
             !.pc = IF outcome = "first_update" THEN @ ELSE "raised",
             !.first_update_waited =
                 IF outcome = "first_update" THEN @ \cup {startup.waiting}
                 ELSE @]
    /\ UNCHANGED <<lock_state, ready_obs, aggVars, gateVars, callers, wsVars>>

\* wait_for_first_update ends: with the update _first_update_waited is set;
\* AuthError, YaleXSBLEError and TimeoutError are logged; either way
\* BleLock.start returns and the loop goes on. Any other exception leaves
\* BleLock.start and LockManager.start.
LockStartEnd(outcome) ==
    /\ startup.pc = "locks"
    /\ startup.waiting # None
    /\ startup' =
          [startup EXCEPT
             !.waiting = None,
             !.outcome = Append(@, outcome),
             !.pc = IF outcome \in Caught \cup {"first_update"} THEN @
                    ELSE "raised",
             !.first_update_waited =
                 IF outcome = "first_update" THEN @ \cup {startup.waiting}
                 ELSE @]
    /\ UNCHANGED <<lock_state, ready_obs, aggVars, gateVars, callers, wsVars>>

\* The loop has started every device: LockManager.start() returns.
StartReturn ==
    /\ startup.pc = "locks"
    /\ startup.waiting = None
    /\ Len(startup.outcome) = Len(LockOrder)
    /\ startup' = [startup EXCEPT !.pc = "done"]
    /\ UNCHANGED <<lock_state, ready_obs, aggVars, gateVars, callers, wsVars>>

\* A stop() that cancels the settle tasks on its way.
ManagerStopCancelling ==
    /\ startup.pc = "done"
    /\ startup' = [startup EXCEPT !.pc = "stopping", !.callbacks = {}]
    /\ tasks' = [t \in DOMAIN tasks |->
                   IF tasks[t].pc # "done" THEN Cancelled(t) ELSE tasks[t]]
    /\ UNCHANGED <<lock_state, ready_obs, critical_state, pending_state,
                   pending_reason, pending_tasks, busVars, burst, gateVars,
                   callers, wsVars>>

\* LockManager.stop() up to its wait for the scanner: stop() of every device
\* runs without suspending (it calls the shutdown handle PushLock.start
\* returned, logs what that raises, and drops the handle), after which
\* PushLock calls back no more; then stop awaits self._scanner.stop().
\* Nothing in it touches _pending_tasks.
ManagerStop ==
    /\ startup.pc = "done"
    /\ startup' = [startup EXCEPT !.pc = "stopping", !.callbacks = {}]
    /\ UNCHANGED <<lock_state, ready_obs, aggVars, gateVars, callers, wsVars>>

\* The scanner has stopped: self._scanner = None and stop() returns.
\* `left_pending` records the settle tasks that have not fired at this moment.
ManagerStopReturn ==
    /\ startup.pc = "stopping"
    /\ startup' = [startup EXCEPT
                     !.pc = "stopped",
                     !.left_pending = {t \in DOMAIN tasks :
                                         /\ Alive(t)
                                         /\ tasks[t].pc \in {"new", "debounce"}}]
    /\ UNCHANGED <<lock_state, ready_obs, aggVars, gateVars, callers, wsVars>>

\* ------------------------------------------------------------ environments
\* What the adapters report: a device with a door sensor reports both axes,
\* one without reports the lock axis only.
FullReports == LockStatus \X DoorStatus
LockReports == {<<"LOCKED", "UNKNOWN">>, <<"UNLOCKED", "UNKNOWN">>}
DoorReports == LockReports \cup {<<"UNKNOWN", "OPENED">>, <<"LOCKED", "CLOSED">>}

\* The configured secret, the Authorization headers and the frames clients use.
Secret == <<"k">>
Tokens == {Absent, Some(<<>>), Some(Secret)}
NoAuthHeader == {Absent}
AuthHeaders ==
    { Absent,
      Some(<<>>),
      Some(<<"B", "a", "s", "i", "c", " ", "k">>),
      Some(<<"B", "e", "a", "r", "e", "r">>),
      Some(<<"b", "e", "a", "r", "e", "r", " ", "k">>),
      Some(BearerPrefix),
      Some(BearerPrefix \o <<"k">>),
      Some(BearerPrefix \o <<"x">>),
      Some(BearerPrefix \o <<"k", "x">>),
      Some(BearerPrefix \o <<" ", "k">>) }
CommandFrames ==
    { Frame("object", "command", "r1", "lock", "A"),
      Frame("object", "command", "r2", "get_state", "A"),
      Frame("object", "command", "r3", "list_locks", None) }
UnlockFrame == Frame("object", "command", "r1", "unlock", "B")

NoEvent == [type |-> "none", seq |-> 0]

\* The state after construction: the manager with its devices, and, when
\* `listeners` is not empty, the server (whose constructor registers its
\* listener) with the configured auth token.
BootWith(token, listeners, start) ==
    /\ startup = start
    /\ lock_state = [d \in Locks |-> <<None, None>>]
    /\ ready_obs = <<>>
    /\ critical_state = EmptyDict
    /\ pending_state = EmptyDict
    /\ pending_reason = EmptyDict
    /\ pending_tasks = EmptyDict
    /\ tasks = <<>>
    /\ sem_value = 1
    /\ sem_waiters = <<>>
    /\ ops = {}
    /\ callers = [k \in Callers |-> [pc |-> "idle", op |-> None, dev |-> None]]
    /\ event_listeners = listeners
    /\ events = <<>>
    /\ last_event = NoEvent
    /\ listener_runs = {}
    /\ burst = [d \in Locks |-> [obs |-> 0, events |-> 0]]
    /\ auth_token = token
    /\ conns = [c \in Clients |-> NoConn]
    /\ clients = {}
    /\ sends = [c \in Clients |-> <<>>]
    /\ server = [listening |-> TRUE, pc |-> "run", closing |-> {}, failed |-> {}]

\* The service after main() has started the manager and the server.
Boot(token, listeners) == BootWith(token, listeners, Started)

\* The steps of the settle engine of a manager nobody else takes the
\* semaphore from.
Settle ==
    \/ OnStateDuplicate
    \/ OnStateChange
    \/ \E t \in DOMAIN tasks : SettleStart(t)
    \/ \E t \in DOMAIN tasks : SettleCommit(t)
    \/ \E t \in DOMAIN tasks : SettleRefresh(t)
    \/ \E t \in DOMAIN tasks : SettleRefreshDone(t)
    \/ \E t \in DOMAIN tasks : SettleCancelled(t)
\* The same with waiters at the semaphore.
Engine ==
    \/ Settle
    \/ \E t \in DOMAIN tasks : SettleGranted(t)

\* The service as main.py wires it, without a secret: device A reports its
\* lock axis, one client locks it, reads its state and lists the devices,
\* another unlocks device B.
Init == Boot(Absent, <<"_handle_lock_event">>)
Next ==
    \/ \E r \in LockReports : StateChanged("A", r[1], r[2])
    \/ Engine
    \/ RunListener
    \/ \E c \in Clients : Send(c)
    \/ \E t \in DOMAIN tasks : TimerFires(t)
    \/ \E c \in Clients, h \in NoAuthHeader : Handshake(c, h)
    \/ \E f \in CommandFrames : HandleFrame("c1", f)
    \/ HandleFrame("c2", UnlockFrame)
    \/ \E c \in Clients, ok \in BOOLEAN : CommandDone(c, ok)
    \/ \E c \in Clients : Disconnect(c)
Spec == Init /\ [][Next]_vars

\* The same service with a single client, which sends all four commands.
NextClient ==
    \/ \E r \in LockReports : StateChanged("A", r[1], r[2])
    \/ Engine
    \/ RunListener
    \/ Send("c1")
    \/ \E t \in DOMAIN tasks : TimerFires(t)
    \/ \E h \in NoAuthHeader : Handshake("c1", h)
    \/ \E f \in CommandFrames \cup {UnlockFrame} : HandleFrame("c1", f)
    \/ \E ok \in BOOLEAN : CommandDone("c1", ok)
    \/ Disconnect("c1")
SpecClient == Init /\ [][NextClient]_vars

\* The manager driven through cmd_lock / cmd_unlock, with its settle tasks.
NextApi ==
    \/ \E r \in LockReports : StateChanged("A", r[1], r[2])
    \/ StateChanged("B", "LOCKED", "UNKNOWN")
    \/ Engine
    \/ \E t \in DOMAIN tasks : TimerFires(t)
    \/ CmdCall("k1", "lock", "A")
    \/ CmdCall("k2", "unlock", "B")
    \/ \E k \in Callers : CmdGranted(k)
    \/ \E k \in Callers : CmdDone(k)
InitManager == Boot(Absent, <<>>)
SpecApi == InitManager /\ [][NextApi]_vars

\* One device with a door sensor, reports that change either axis, both, or
\* none, and one caller competing for the semaphore.
NextSettle ==
    \/ \E r \in DoorReports : StateChanged("A", r[1], r[2])
    \/ Engine
    \/ \E t \in DOMAIN tasks : TimerFires(t)
    \/ CmdCall("k1", "lock", "B")
    \/ CmdGranted("k1")
    \/ CmdDone("k1")
SpecSettle == InitManager /\ [][NextSettle]_vars

\* The same device on the clock.
NextTimed ==
    \/ \E r \in FullReports : StateChanged("A", r[1], r[2])
    \/ Settle
    \/ Tick
SpecTimed == InitManager /\ [][NextTimed]_vars

\* The handshake, for every configuration of the secret and every header.
InitAuth == \E token \in Tokens : Boot(token, <<"_handle_lock_event">>)
NextAuth ==
    \/ \E c \in Clients, h \in AuthHeaders : Handshake(c, h)
    \/ \E c \in Clients : Disconnect(c)
SpecAuth == InitAuth /\ [][NextAuth]_vars

\* The protocol alone: clients connect and send every kind of frame (no JSON,
\* JSON that is no object, objects of a wrong or missing type, every command
\* with and without a lock_name, with a registered and an unregistered device,
\* with and without a request_id); no device reports anything.
ProtoFrames ==
    {Frame("invalid", None, None, None, None),
     Frame("scalar", None, None, None, None)}
    \cup {Frame("object", t, r, "lock", "A") : t \in {None, "event"},
                                                r \in {None, "r1"}}
    \cup {Frame("object", "command", r, cmd, n) :
             r \in {None, "r1", "r2"},
             cmd \in {None, "list_locks", "lock", "unlock", "get_state", "reboot"},
             n \in {None, "", "A", "Z"}}
NextProto ==
    \/ \E c \in Clients : Handshake(c, NoAuthHeader)
    \/ \E c \in Clients, f \in ProtoFrames : HandleFrame(c, f)
    \/ \E c \in Clients, ok \in BOOLEAN : CommandDone(c, ok)
    \/ \E c \in Clients : Disconnect(c)
SpecProto == Init /\ [][NextProto]_vars

\* The relay: device A reports, its settle tasks publish, the server relays
\* to two clients that connect, of which one loses its connection and goes
\* away.
NextRelay ==
    \/ \E r \in LockReports : StateChanged("A", r[1], r[2])
    \/ Settle
    \/ \E t \in DOMAIN tasks : TimerFires(t)
    \/ RunListener
    \/ \E c \in Clients : Send(c)
    \/ \E c \in Clients : Handshake(c, Absent)
    \/ ConnectionLost("c1")
    \/ Disconnect("c1")
SpecRelay == Init /\ [][NextRelay]_vars

\* The event bus with subscribers of its own: one registered before the
\* server's listener, one registered while the service runs; their listeners
\* raise or never finish. Device A reports and one client listens.
Outcomes == {"raises", "hangs"}
InitBus == Boot(Absent, <<"subscriber", "_handle_lock_event">>)
NextBus ==
    \/ \E r \in LockReports : StateChanged("A", r[1], r[2])
    \/ Settle
    \/ \E t \in DOMAIN tasks : TimerFires(t)
    \/ RegisterEventListener("late_subscriber")
    \/ \E outcome \in Outcomes : RunSubscriber(outcome)
    \/ RunListener
    \/ Send("c1")
    \/ Handshake("c1", Absent)
SpecBus == InitBus /\ [][NextBus]_vars

\* The manager whose refreshes may fail: device A reports its lock axis,
\* and a caller locks device B.
NextRefresh ==
    \/ \E r \in LockReports : StateChanged("A", r[1], r[2])
    \/ Engine
    \/ \E t \in DOMAIN tasks : SettleRefreshFails(t)
    \/ \E t \in DOMAIN tasks : TimerFires(t)
    \/ CmdCall("k1", "lock", "B")
    \/ CmdGranted("k1")
    \/ CmdDone("k1")
SpecRefresh == InitManager /\ [][NextRefresh]_vars

\* Shutdown: two clients connect, device A reports LOCKED, which is settled,
\* published and relayed, and stop() runs at some moment of all that.
NextStop ==
    \/ StateChanged("A", "LOCKED", "UNKNOWN")
    \/ OnStateChange
    \/ \E t \in DOMAIN tasks : SettleStart(t)
    \/ \E t \in DOMAIN tasks : SettleCommit(t)
    \/ \E t \in DOMAIN tasks : TimerFires(t)
    \/ RunListener
    \/ \E c \in Clients : Send(c)
    \/ \E c \in Clients : Handshake(c, Absent)
    \/ \E c \in Clients : Disconnect(c)
    \/ StopListener
    \/ StopCopy
    \/ \E c \in Clients, ok \in BOOLEAN : StopClose(c, ok)
    \/ StopReturn
SpecStop == Init /\ [][NextStop]_vars

\* The manager on a running event loop: a task that is ready to run is run
\* (observations are processed, a task is started, resumed when its timer
\* has fired, or resumed with its cancellation), a timer that was set fires,
\* and a refresh that was started returns.
Scheduling ==
    /\ WF_vars(OnStateDuplicate)
    /\ WF_vars(OnStateChange)
    /\ \A t \in 1..MaxTasks :
          /\ WF_vars(t \in DOMAIN tasks /\ SettleStart(t))
          /\ WF_vars(t \in DOMAIN tasks /\ TimerFires(t))
          /\ WF_vars(t \in DOMAIN tasks /\ SettleCommit(t))
          /\ WF_vars(t \in DOMAIN tasks /\ SettleCancelled(t))
          /\ WF_vars(t \in DOMAIN tasks /\ SettleRefresh(t))
          /\ WF_vars(t \in DOMAIN tasks /\ SettleRefreshDone(t))
\* Device A reports until as many reports were made as settle tasks may be
\* created, and then is silent.
NextLive ==
    \/ /\ Len(tasks) + Len(ready_obs) < MaxTasks
       /\ \E r \in FullReports : StateChanged("A", r[1], r[2])
    \/ Settle
    \/ \E t \in DOMAIN tasks : TimerFires(t)
SpecLive == InitManager /\ [][NextLive]_vars /\ Scheduling

\* The adapter calling back faster than the event loop runs the _on_state
\* tasks: device A reports its lock axis.
NextQueue ==
    \/ \E r \in LockReports : StateChangedQueued("A", r[1], r[2])
    \/ OnStateDuplicate
    \/ OnStateChange
    \/ \E t \in DOMAIN tasks : SettleStart(t)
    \/ \E t \in DOMAIN tasks : TimerFires(t)
    \/ \E t \in DOMAIN tasks : SettleCommit(t)
    \/ \E t \in DOMAIN tasks : SettleCancelled(t)
SpecQueue == InitManager /\ [][NextQueue]_vars

\* Startup: main() calls LockManager.start(); a device whose callback is
\* registered may report LOCKED, and the manager settles it, while the
\* devices are being started and after.
InitStart == BootWith(Absent, <<>>, NotStarted)
NextStart ==
    \/ \E ok \in BOOLEAN : ManagerStart(ok)
    \/ \E how \in {"ok", "close_failed", "start_failed"} : LockStartBegin(how)
    \/ \E outcome \in WaitOutcomes : LockStartEnd(outcome)
    \/ StartReturn
    \/ \E d \in startup.callbacks : StateChanged(d, "LOCKED", "UNKNOWN")
    \/ OnStateDuplicate
    \/ OnStateChange
    \/ \E t \in DOMAIN tasks : SettleStart(t)
    \/ \E t \in DOMAIN tasks : TimerFires(t)
    \/ \E t \in DOMAIN tasks : SettleCommit(t)
SpecStart == InitStart /\ [][NextStart]_vars

\* The service with a secret configured: client c1 tries every header, c2
\* presents the secret; accepted connections ask for the list of locks, and
\* device A reports LOCKED, which a settle task publishes and the server
\* relays.
ListFrame == Frame("object", "command", "r3", "list_locks", None)
InitSecure == Boot(Some(Secret), <<"_handle_lock_event">>)
NextSecure ==
    \/ \E h \in AuthHeaders : Handshake("c1", h)
    \/ Handshake("c2", Some(BearerPrefix \o Secret))
    \/ \E c \in Clients : HandleFrame(c, ListFrame)
    \/ StateChanged("A", "LOCKED", "UNKNOWN")
    \/ OnStateDuplicate
    \/ OnStateChange
    \/ \E t \in DOMAIN tasks : SettleStart(t)
    \/ \E t \in DOMAIN tasks : TimerFires(t)
    \/ \E t \in DOMAIN tasks : SettleCommit(t)
    \/ \E t \in DOMAIN tasks : SettleRefresh(t)
    \/ \E t \in DOMAIN tasks : SettleRefreshDone(t)
    \/ RunListener
    \/ \E c \in Clients : Send(c)
    \/ Disconnect("c1")
SpecSecure == InitSecure /\ [][NextSecure]_vars

\* The manager some time after device A's first settle: the state the device
\* reported (door CLOSED, the lock LOCKED or not known) is committed, its
\* event is published and its task has finished, so nothing is tracked. The
\* device then reports changes of either axis, also back to what is
\* committed.
Committed == {<<"LOCKED", "CLOSED">>, <<"UNKNOWN", "CLOSED">>}
ReturnReports ==
    { <<"UNKNOWN", "OPENED">>, <<"UNKNOWN", "CLOSED">>,
      <<"UNLOCKED", "UNKNOWN">>, <<"LOCKED", "UNKNOWN">> }
InitReturn ==
    \E base \in Committed :
        LET stable == <<StableLock(base[1]), StableDoor(base[2])>> IN
        /\ startup = Started
        /\ lock_state = [d \in Locks |-> IF d = "A" THEN base ELSE <<None, None>>]
        /\ ready_obs = <<>>
        /\ critical_state = Put(EmptyDict, "A", stable)
        /\ pending_state = Put(EmptyDict, "A", stable)
        /\ pending_reason = EmptyDict
        /\ pending_tasks = EmptyDict
        /\ tasks = <<>>
        /\ sem_value = 1
        /\ sem_waiters = <<>>
        /\ ops = {}
        /\ callers = [k \in Callers |-> [pc |-> "idle", op |-> None, dev |-> None]]
        /\ event_listeners = <<>>
        /\ events = <<>>
        /\ last_event = [type |-> "lock_state", lock_name |-> "A",
                         state |-> [lock_name |-> "A", locked |-> base[1],
                                    door |-> base[2]],
                         seq |-> 1]
        /\ listener_runs = {}
        /\ burst = [d \in Locks |-> IF d = "A" THEN [obs |-> 1, events |-> 1]
                                    ELSE [obs |-> 0, events |-> 0]]
        /\ auth_token = Absent
        /\ conns = [c \in Clients |-> NoConn]
        /\ clients = {}
        /\ sends = [c \in Clients |-> <<>>]
        /\ server = [listening |-> TRUE, pc |-> "run", closing |-> {}, failed |-> {}]
NextReturn ==
    \/ \E r \in ReturnReports : StateChanged("A", r[1], r[2])
    \/ OnStateDuplicate
    \/ OnStateChange
    \/ \E t \in DOMAIN tasks : SettleStart(t)
    \/ \E t \in DOMAIN tasks : TimerFires(t)
    \/ \E t \in DOMAIN tasks : SettleCommit(t)
    \/ \E t \in DOMAIN tasks : SettleCancelled(t)
    \/ \E t \in DOMAIN tasks : SettleRefresh(t)
    \/ \E t \in DOMAIN tasks : SettleRefreshDone(t)
SpecReturn == InitReturn /\ [][NextReturn]_vars

\* Shutdown: LockManager.stop() is called on the started manager while
\* device A has been reporting and its settle tasks are under way, and the
\* event loop goes on running the tasks that are left.
NextShutdown ==
    \/ \E d \in startup.callbacks \cap {"A"}, r \in LockReports :
          StateChanged(d, r[1], r[2])
    \/ OnStateDuplicate
    \/ OnStateChange
    \/ \E t \in DOMAIN tasks : SettleStart(t)
    \/ \E t \in DOMAIN tasks : TimerFires(t)
    \/ \E t \in DOMAIN tasks : SettleCommit(t)
    \/ \E t \in DOMAIN tasks : SettleRefresh(t)
    \/ \E t \in DOMAIN tasks : SettleRefreshDone(t)
    \/ \E t \in DOMAIN tasks : SettleCancelled(t)
    \/ ManagerStop
    \/ ManagerStopReturn
SpecShutdown == InitManager /\ [][NextShutdown]_vars

\* The manager whose adapter snapshot may fail: device A reports its lock
\* axis.
NextSnapshot ==
    \/ \E r \in LockReports : StateChanged("A", r[1], r[2])
    \/ Settle
    \/ \E t \in DOMAIN tasks : SettleSnapshotFails(t)
    \/ \E t \in DOMAIN tasks : TimerFires(t)
SpecSnapshot == InitManager /\ [][NextSnapshot]_vars

\* -------------------------------------------------------------- properties
\* C1 (SpecApi): of the operations started through _with_ble_lock (cmd_lock,
\* cmd_unlock, the settle tasks' cmd_refresh) at most one executes at any
\* instant, whichever devices they are for; at most one coroutine is past the
\* semaphore, and whoever waits for it runs no operation and finds it taken.
C1_OneGatedOperation ==
    LET gated == {o \in ops : o.gated}
        inside == {TaskOwner(t) : t \in {u \in DOMAIN tasks :
                                     tasks[u].pc \in {"granted", "refreshing"}}}
                  \cup {CallerOwner(k) : k \in {j \in Callers :
                                     callers[j].pc \in {"granted", "running"}}}
    IN
    /\ Cardinality(gated) <= 1
    /\ Cardinality(inside) <= 1
    /\ \A o \in gated : o.owner \in inside
    /\ \A i \in 1..Len(sem_waiters) :
          /\ sem_value = 0
          /\ inside # {}
          /\ \A o \in ops : o.owner # sem_waiters[i]

\* C1: an operation executes while a coroutine for the same device and one
\* for another device wait for the semaphore.
C1_Witness ==
    \E o \in ops :
        /\ o.gated
        /\ \E i, j \in 1..Len(sem_waiters) :
              LET dev(w) == IF w[1] = "task" THEN tasks[w[2]].dev
                                             ELSE callers[w[2]].dev
              IN dev(sem_waiters[i]) = o.dev /\ dev(sem_waiters[j]) # o.dev

\* C2 (Spec): the lock / unlock commands received over the WebSocket API are
\* serialized with every other device operation: no two device operations
\* overlap in time.
C2_NoOverlappingOperations == Cardinality(ops) <= 1

\* C3 (SpecSettle): a burst of state-changing observations, each processed
\* while the settle of the one before has not fired, publishes one settle
\* event: none while the burst is open, and exactly one, carrying the final
\* candidate, once the last observation's settle has fired.
C3_OneEventPerBurst ==
    \A d \in Locks :
        /\ burst[d].events <= 1
        /\ BurstOpen(d) => burst[d].events = 0
        /\ ( /\ d \in DOMAIN pending_tasks
             /\ Alive(pending_tasks[d])
             /\ tasks[pending_tasks[d]].pc \notin {"new", "debounce"} )
           => /\ burst[d].events = 1
              /\ last_event.type = "lock_state"
              /\ last_event.lock_name = d
              /\ \/ pending_state[d][1] = None
                 \/ last_event.state.locked = pending_state[d][1]
              /\ \/ pending_state[d][2] = None
                 \/ last_event.state.door = pending_state[d][2]

\* C3: a burst of at least two state-changing observations has published its
\* one event.
C3_Witness ==
    \E d \in Locks : burst[d].obs >= 2 /\ burst[d].events = 1

\* C4 (SpecSettle): at most one settle task of a device is alive.
C4_OneSettleTask ==
    \A d \in Locks :
        Cardinality({t \in DOMAIN tasks : tasks[t].dev = d /\ Alive(t)}) <= 1

\* C4: a settle task was replaced: the old one, cancelled, has not ended yet
\* and the new one is alive.
C4_Witness ==
    \E t, u \in DOMAIN tasks :
        /\ t # u
        /\ tasks[t].dev = tasks[u].dev
        /\ tasks[t].cancelled /\ tasks[t].pc # "done"
        /\ Alive(u)

\* C5 (SpecSettle): a settle task whose cancellation was requested, wherever
\* it was suspended, only ends: it commits nothing, publishes nothing and
\* starts no refresh.
C5_CancelledTaskIsInert ==
    [][ \A t \in DOMAIN tasks :
          tasks[t].cancelled =>
            /\ tasks'[t].pc \in {tasks[t].pc, "done"}
            /\ tasks'[t].commits = 0
            /\ tasks'[t].published = 0
            /\ tasks'[t].refreshes = 0
            /\ \A o \in ops' \ ops : o.owner # TaskOwner(t)
            /\ (critical_state' # critical_state \/ last_event' # last_event)
               => \E u \in DOMAIN tasks :
                     /\ u # t
                     /\ ~tasks[u].cancelled
                     /\ tasks[u].pc = "debounce"
                     /\ tasks'[u].pc = "reconcile" ]_vars

\* C5: a task is cancelled while it waits for the semaphore.
C5_Witness ==
    \E t \in DOMAIN tasks : tasks[t].cancelled /\ tasks[t].pc = "gatewait"

\* C6 (SpecClient): CommittedState changes only in the step in which an uncancelled
\* settle task wakes from its fired debounce timer, and only for that task's
\* device, to its candidate state.
C6_OnlySettleCommits ==
    [][ critical_state' # critical_state =>
          \E t \in DOMAIN tasks :
              /\ ~tasks[t].cancelled
              /\ tasks[t].pc = "debounce"
              /\ tasks[t].remaining = 0
              /\ tasks'[t].pc = "reconcile"
              /\ critical_state' = Put(critical_state, tasks[t].dev,
                                       pending_state[tasks[t].dev]) ]_vars

\* C6: a settle task has committed while a client's command executes and a
\* replaced task has not ended yet.
C6_Witness ==
    /\ \E t \in DOMAIN tasks :
          /\ tasks[t].commits = 1
          /\ tasks[t].dev \in DOMAIN critical_state
    /\ \E o \in ops : ~o.gated
    /\ \E c \in Clients : conns[c].out.type = "response"

C8_DoorRestartsShortWait ==
    \A t \in DOMAIN tasks :
        ( /\ Alive(t)
          /\ tasks[t].pc = "debounce"
          /\ tasks[t].lockWait >= 0 )
        => /\ tasks[t].delay = DOOR_DEBOUNCE_SECONDS
           /\ tasks[t].remaining <= DOOR_DEBOUNCE_SECONDS
           /\ tasks[t].lockWait >= DOOR_DEBOUNCE_SECONDS
              => tasks[t].delay <= tasks[t].lockWait

\* C8: a door change found a "lock" settle with more than
\* DOOR_DEBOUNCE_SECONDS left and the new settle has just begun its wait.
C8_Witness ==
    \E t \in DOMAIN tasks :
        /\ Alive(t)
        /\ tasks[t].pc = "debounce"
        /\ tasks[t].lockWait > DOOR_DEBOUNCE_SECONDS
        /\ tasks[t].remaining = DOOR_DEBOUNCE_SECONDS

\* C8 as the specification states it: the new wait is DOOR_DEBOUNCE_SECONDS
\* and is never longer than the wait that remained before.
C8_NeverLonger ==
    \A t \in DOMAIN tasks :
        ( /\ Alive(t)
          /\ tasks[t].pc = "debounce"
          /\ tasks[t].lockWait >= 0 )
        => /\ tasks[t].delay = DOOR_DEBOUNCE_SECONDS
           /\ tasks[t].delay <= tasks[t].lockWait

\* C9 (SpecSettle): a settle task calls cmd_refresh at most once, only when
\* its reconciliation timer has fired and after it published its event; the
\* adapter operation it starts is a refresh of its own device; and a task
\* that was not cancelled ends only after that one refresh.
C9_OneRefreshAfterEvent ==
    [][ \A t \in DOMAIN tasks :
          /\ tasks'[t].refreshes <= 1
          /\ tasks'[t].refreshes > tasks[t].refreshes
             => /\ ~tasks[t].cancelled
                /\ tasks[t].pc = "reconcile"
                /\ tasks[t].remaining = 0
                /\ tasks[t].published = 1
          /\ \A o \in ops' \ ops :
                o.owner = TaskOwner(t)
                => /\ o.op = "refresh"
                   /\ o.dev = tasks[t].dev
                   /\ tasks'[t].refreshes = 1
                   /\ tasks'[t].published = 1
          /\ (~tasks[t].cancelled /\ tasks[t].pc # "done" /\ tasks'[t].pc = "done")
             => /\ tasks[t].pc = "refreshing"
                /\ tasks[t].refreshes = 1
                /\ tasks[t].published = 1 ]_vars

\* C9: the refresh of an uncancelled settle task executes.
C9_Witness ==
    \E t \in DOMAIN tasks :
        /\ Alive(t)
        /\ tasks[t].pc = "refreshing"
        /\ tasks[t].refreshes = 1
        /\ tasks[t].published = 1
        /\ Op(tasks[t].dev, "refresh", TaskOwner(t), TRUE) \in ops

\* C10 (SpecAuth): with a secret configured, a handshake without a bearer
\* credential (no header, or one that does not begin with "Bearer ") is
\* rejected with 401 and one whose bearer token (what follows the scheme,
\* without the whitespace around it) is not the secret with 403; without a
\* secret every handshake is accepted; a rejected connection is never open.
C10_HandshakeOutcome ==
    \A c \in Clients :
        conns[c].state # "connecting" =>
          LET h == conns[c].header
              configured == auth_token.given /\ auth_token.text # <<>>
              bearer == /\ h.given
                        /\ Len(h.text) >= Len(BearerPrefix)
                        /\ SubSeq(h.text, 1, Len(BearerPrefix)) = BearerPrefix
              credential == Strip(SubSeq(h.text, Len(BearerPrefix) + 1, Len(h.text)))
          IN
          /\ (configured /\ ~bearer)
             => conns[c].state = "rejected" /\ conns[c].status = 401
          /\ (configured /\ bearer /\ credential # auth_token.text)
             => conns[c].state = "rejected" /\ conns[c].status = 403
          /\ ~configured
             => conns[c].state \in {"open", "closed"} /\ conns[c].status = 0
          /\ conns[c].status # 0
             => conns[c].state = "rejected" /\ c \notin clients /\ conns[c].pc = "none"
          /\ conns[c].state = "rejected" => conns[c].status \in {401, 403}

\* C10: with a secret configured one handshake was rejected with 401 and
\* another with 403.
C10_Witness ==
    /\ Truthy(auth_token)
    /\ \E c, e \in Clients :
          /\ conns[c].state = "rejected" /\ conns[c].status = 401
          /\ conns[e].state = "rejected" /\ conns[e].status = 403

\* C11 (SpecAuth): with a secret configured, a handshake is accepted if and
\* only if what the header carries after "Bearer " is the very string of the
\* secret, nothing stripped on either side.
C11_ExactMatch ==
    \A c \in Clients :
        (conns[c].state # "connecting" /\ Truthy(auth_token)) =>
          LET h == conns[c].header
              exact == /\ h.given
                       /\ Len(h.text) >= Len(BearerPrefix)
                       /\ SubSeq(h.text, 1, Len(BearerPrefix)) = BearerPrefix
                       /\ SubSeq(h.text, Len(BearerPrefix) + 1, Len(h.text))
                            = auth_token.text
          IN (conns[c].state # "rejected") <=> exact

\* The commands _handle_message cannot execute: lock, unlock or get_state
\* without a lock_name or for a device that is not registered, and a command
\* it does not know.
Unexecutable(f) ==
    /\ f.json = "object"
    /\ f.type = "command"
    /\ f.command # "list_locks"
    /\ \/ f.command \notin {"lock", "unlock", "get_state"}
       \/ f.lock_name \notin Locks

\* C12 (SpecProto): a command that cannot be executed is answered with an
\* error response, starts no device operation and leaves the connection open
\* and registered; list_locks is answered with the device names whether or not
\* it carries a lock_name.
C12_UnexecutableCommand ==
    \A c \in Clients :
        LET f == conns[c].frame IN
        /\ Unexecutable(f) =>
              /\ conns[c].out.type = "response"
              /\ conns[c].out.status = "error"
              /\ conns[c].out.error # None
              /\ conns[c].state = "open"
              /\ conns[c].pc = "recv"
              /\ c \in clients
              /\ ~ \E o \in ops : o.owner = ConnOwner(c)
        /\ (f.json = "object" /\ f.type = "command" /\ f.command = "list_locks") =>
              /\ conns[c].out.type = "response"
              /\ conns[c].out.status = "ok"
              /\ conns[c].out.data = [kind |-> "locks", locks |-> Locks]
              /\ conns[c].state = "open"
C12_Witness ==
    /\ conns["c1"].frame = Frame("object", "command", "r1", "unlock", "Z")
    /\ conns["c1"].out.error = "'Z'"
    /\ conns["c2"].frame = Frame("object", "command", "r2", "reboot", "A")
    /\ conns["c2"].out.error = "unknown_command: reboot"
    /\ conns["c2"].state = "open"
    /\ ops = {}


\* C13 (SpecProto): a frame that is no JSON text, or whose JSON value is not
\* an object, is answered with an error response and leaves the connection
\* open and registered for events.
C13_MalformedFrameAnswered ==
    \A c \in Clients :
        conns[c].frame.json \in {"invalid", "scalar"} =>
          /\ conns[c].out.type = "response"
          /\ conns[c].out.status = "error"
          /\ conns[c].state = "open"
          /\ c \in clients


\* C14 (SpecProto): the response to a frame carries the request_id of that
\* frame (None when the frame has none, as for a frame that is no JSON), also
\* when the response is sent only after the device operation has finished.
C14_EchoesRequestId ==
    \A c \in Clients :
        /\ (conns[c].pc = "recv" /\ conns[c].out.type = "response") =>
               conns[c].out.request_id = conns[c].frame.request_id
        /\ conns[c].pc = "op" => conns[c].request_id = conns[c].frame.request_id
C14_Witness ==
    /\ conns["c1"].frame = Frame("object", "command", "r2", "lock", "A")
    /\ conns["c1"].pc = "recv"
    /\ conns["c1"].out.request_id = "r2"
    /\ conns["c1"].out.status = "ok"
    /\ conns["c2"].frame = Frame("object", "command", None, "get_state", "A")
    /\ conns["c2"].out.request_id = None
    /\ conns["c2"].out.status = "ok"


\* Accepted, and the handler is in its receive loop.
Open(c) == conns[c].state = "open" /\ conns[c].pc \in {"recv", "op"}

\* C15 (SpecRelay): when the server's listener runs on a published event, a
\* lock_state event message with that event's device and state is queued for
\* every open connection, and a queued message goes out to its connection
\* when the connection is still open.
C15_RelayedToEveryOpen ==
    [][ /\ Len(events') < Len(events) =>
             \A c \in Clients : Open(c) =>
                 /\ Len(sends'[c]) = Len(sends[c]) + 1
                 /\ LET m == sends'[c][Len(sends'[c])] IN
                    /\ m.type = "event"
                    /\ m.event = "lock_state"
                    /\ m.lock_name = Head(events).event.lock_name
                    /\ m.state = Head(events).event.state
        /\ \A c \in Clients :
             (Len(sends'[c]) < Len(sends[c]) /\ conns[c].state = "open") =>
                 conns'[c].out = sends[c][1]
      ]_vars
C15_Witness ==
    /\ \A c \in Clients : Open(c) /\ conns[c].out.type = "event"
    /\ conns["c1"].out.seq = 2
    /\ conns["c2"].out.seq = 2

\* C16 (SpecRelay): a send that fails discards the connection it was for and
\* nothing else: the other connections stay registered, keep the messages
\* queued for them and stay part of later relays; and no send task of a
\* relay is ever kept from running to its end, so gather() returns.
C16_FailureDropsOnlyThatOne ==
    /\ [][ \A c \in Clients :
             (Len(sends'[c]) < Len(sends[c]) /\ conns[c].state # "open") =>
                 /\ clients' = clients \ {c}
                 /\ events' = events
                 /\ \A o \in Clients \ {c} :
                      sends'[o] = sends[o] /\ conns'[o] = conns[o]
          ]_vars
    /\ [](\A c \in Clients : sends[c] # <<>> => ENABLED Send(c))
C16_Witness ==
    /\ conns["c1"].state = "lost"
    /\ conns["c1"].pc = "recv"
    /\ "c1" \notin clients
    /\ conns["c1"].out.type = "none"
    /\ sends["c1"] = <<>>
    /\ Open("c2")
    /\ conns["c2"].out.type = "event"
    /\ conns["c2"].out.seq = 2


\* The number of the event a connection was sent last (0: none yet).
LastSeq(c) == IF conns[c].out.type = "event" THEN conns[c].out.seq ELSE 0

\* C19 (SpecRelay): the server's listener is started on the events in the
\* order they were published, and every connection is sent its event
\* messages in that order: the event a relay starts on is older than every
\* event still waiting and newer than every one already relayed, and the
\* message a connection is sent is newer than the one it was sent before and
\* older than those still queued for it.
C19_PublishOrder ==
    [][ /\ Len(events') < Len(events) =>
             LET e == Head(events).event IN
             /\ \A i \in DOMAIN events' : e.seq < events'[i].event.seq
             /\ \A c \in Clients :
                  /\ LastSeq(c) < e.seq
                  /\ \A i \in DOMAIN sends[c] : sends[c][i].seq < e.seq
        /\ \A c \in Clients :
             conns'[c].out # conns[c].out =>
                 /\ LastSeq(c) < conns'[c].out.seq
                 /\ \A i \in DOMAIN sends'[c] :
                      conns'[c].out.seq < sends'[c][i].seq
      ]_vars
C19_Witness ==
    /\ Len(sends["c2"]) = 1
    /\ sends["c2"][1].seq = 2
    /\ LastSeq("c2") = 1
    /\ events = <<>>


\* C18 (SpecBus): _broadcast creates one listener task for every subscriber
\* registered at that moment, in registration order, and runs none of them:
\* in the same step the settle task goes on to its reconciliation sleep. A
\* subscriber's listener that raises or never finishes touches
\* neither the settle tasks nor the listener tasks of the other subscribers,
\* and a settle task whose reconciliation timer fired can always go on to its
\* refresh.
C18_PublishDoesNotWait ==
    /\ [][ /\ last_event' # last_event =>
                 /\ events' = events \o
                        [i \in DOMAIN event_listeners |->
                           [listener |-> event_listeners[i], event |-> last_event']]
                 /\ listener_runs' = listener_runs
                 /\ sends' = sends
                 /\ \E t \in DOMAIN tasks :
                      /\ tasks[t].pc = "debounce"
                      /\ tasks'[t].pc = "reconcile"
           /\ listener_runs' # listener_runs =>
                /\ tasks' = tasks
                /\ pending_tasks' = pending_tasks
                /\ events' = Tail(events)
                /\ sends' = sends
                /\ conns' = conns
         ]_vars
    /\ [](\A t \in DOMAIN tasks :
             (tasks[t].pc = "reconcile" /\ tasks[t].remaining = 0 /\ Resumable(t))
                => ENABLED SettleRefresh(t))
C18_Witness ==
    /\ [listener |-> "subscriber", seq |-> 1, outcome |-> "hangs"] \in listener_runs
    /\ [listener |-> "subscriber", seq |-> 2, outcome |-> "raises"] \in listener_runs
    /\ [listener |-> "late_subscriber", seq |-> 2, outcome |-> "hangs"] \in listener_runs
    /\ conns["c1"].out.type = "event"
    /\ conns["c1"].out.seq = 2
    /\ \E t \in DOMAIN tasks : tasks[t].pc = "refreshing" /\ tasks[t].published = 1


\* C20 (SpecRefresh): in the step in which a settle task's refresh fails the
\* task ends, and with it its adapter operation; it called cmd_refresh once
\* and never again; its tracking entry and reason are removed if it is the
\* tracked task; _critical_state and the published events stay as they were.
\* Afterwards the task holds nothing: no operation, no place at the
\* semaphore, no tracking entry, and the semaphore is free whenever nobody
\* holds or awaits it, so that later observations of the device and callers
\* for other devices go on.
C20_RefreshFailureOnlyLogged ==
    /\ [][ \A t \in DOMAIN tasks :
             (tasks[t].pc = "refreshing" /\ tasks'[t].failed) =>
                 LET d == tasks[t].dev IN
                 /\ tasks'[t].pc = "done"
                 /\ tasks[t].refreshes = 1
                 /\ ~ \E o \in ops' : o.owner = TaskOwner(t)
                 /\ IF Get(pending_tasks, d, 0) = t
                    THEN /\ d \notin DOMAIN pending_tasks'
                         /\ d \notin DOMAIN pending_reason'
                    ELSE /\ pending_tasks' = pending_tasks
                         /\ pending_reason' = pending_reason
                 /\ critical_state' = critical_state
                 /\ pending_state' = pending_state
                 /\ last_event' = last_event
                 /\ events' = events
          ]_vars
    /\ [](\A t \in DOMAIN tasks :
             tasks[t].failed =>
                 /\ tasks[t].pc = "done"
                 /\ ~ \E o \in ops : o.owner = TaskOwner(t)
                 /\ \A i \in DOMAIN sem_waiters : sem_waiters[i] # TaskOwner(t)
                 /\ \A d \in DOMAIN pending_tasks : pending_tasks[d] # t
                 /\ (ops = {} /\ sem_waiters = <<>>
                      /\ (\A u \in DOMAIN tasks : tasks[u].pc # "granted")
                      /\ callers["k1"].pc # "granted") => sem_value = 1)
C20_Witness ==
    /\ Len(tasks) = 2
    /\ tasks[1].failed
    /\ tasks[2].pc = "refreshing"
    /\ tasks[2].published = 1
    /\ critical_state["A"] = tasks[2].schedState
    /\ callers["k1"].pc = "gatewait"


\* C17 (SpecStop): a connection is accepted only while the listener is open;
\* stop closes connections only after it closed the listener, with code 1001;
\* a close that raises leaves the close tasks of the other connections
\* pending; while stop closes, every open connection is one whose close is
\* pending or has raised; stop has returned only when no close task is left,
\* and then _clients is empty, stays empty, and no relay queues a message for
\* any connection.
C17_StopClosesEverything ==
    /\ [][ /\ \A c \in Clients :
                 /\ (conns[c].state = "connecting" /\ conns'[c].state = "open")
                       => server.listening
                 /\ conns'[c].code # conns[c].code =>
                       /\ ~server.listening
                       /\ conns'[c].code = 1001
                       /\ conns[c].state = "open"
                       /\ conns'[c].state # "open"
           /\ server'.failed # server.failed =>
                /\ server'.pc = "closing"
                /\ server'.closing = server.closing \ server'.failed
                /\ \A c \in server'.closing : conns'[c] = conns[c]
           /\ server.pc = "done" =>
                /\ server'.pc = "done"
                /\ \A c \in Clients : Len(sends'[c]) <= Len(sends[c])
         ]_vars
    /\ [](server.pc = "closing" =>
              /\ ~server.listening
              /\ \A c \in Clients :
                   Open(c) => c \in server.closing \cup server.failed
              /\ \A c \in server.closing : ENABLED StopClose(c, TRUE))
    /\ [](server.pc = "done" =>
              /\ ~server.listening
              /\ server.closing = {}
              /\ clients = {}
              /\ \A c \in Clients : Open(c) => c \in server.failed)
C17_Witness ==
    /\ server.pc = "done"
    /\ conns["c1"].code = 1001
    /\ conns["c1"].out.type = "none"
    /\ server.failed = {"c2"}
    /\ last_event.seq = 1
    /\ events = <<>>
    /\ \A c \in Clients : sends[c] = <<>>


\* C21 (SpecRefresh): a settle task that ends clears _pending_tasks and
\* _pending_reason of its device when it is the tracked task and leaves both
\* alone when it is not; and every alive settle task is the tracked task of
\* its device, whose reason entry is present.
C21_OnlyTrackedTaskCleans ==
    /\ [][ \A t \in DOMAIN tasks :
             (tasks[t].pc # "done" /\ tasks'[t].pc = "done") =>
                 IF Get(pending_tasks, tasks[t].dev, 0) = t
                 THEN /\ tasks[t].dev \notin DOMAIN pending_tasks'
                      /\ tasks[t].dev \notin DOMAIN pending_reason'
                 ELSE /\ pending_tasks' = pending_tasks
                      /\ pending_reason' = pending_reason
          ]_vars
    /\ [](\A t \in DOMAIN tasks :
             Alive(t) =>
                 /\ Get(pending_tasks, tasks[t].dev, 0) = t
                 /\ tasks[t].dev \in DOMAIN pending_reason)
\* C21: the second observation of a burst replaced task 1, which has ended
\* since, and task 2 is alive and tracked.
C21_Witness ==
    /\ Len(tasks) = 2
    /\ burst["A"].obs = 2
    /\ tasks[1].pc = "done"
    /\ Alive(2)
    /\ tasks[2].pc = "debounce"
    /\ pending_tasks["A"] = 2
    /\ "A" \in DOMAIN pending_reason


\* C22 (SpecTimed): the step that processes an observation in which the lock
\* value is transient or equal to the baseline's, and the door value is
\* transient or equal to the baseline's, changes nothing but the queue of
\* observations: _pending_state, _critical_state, _pending_reason, the
\* tracking entry, every settle task (its cancellation and the time left on
\* its timer included) and the events stay as they were.
C22_DuplicateIsNoOp ==
    [][ (ready_obs # <<>> /\ ready_obs' = Tail(ready_obs)) =>
          LET o == Head(ready_obs)
              base == Baseline(o.dev)
          IN
          ( /\ (o.lock \notin {"LOCKED", "UNLOCKED"} \/ o.lock = base[1])
            /\ (o.door \notin {"OPENED", "CLOSED"} \/ o.door = base[2]) ) =>
              /\ pending_state' = pending_state
              /\ critical_state' = critical_state
              /\ pending_reason' = pending_reason
              /\ pending_tasks' = pending_tasks
              /\ tasks' = tasks
              /\ events' = events
              /\ last_event' = last_event
      ]_vars
\* C22: an observation with transient values on both axes has been processed
\* while the settle task of the first change was waiting, and the timer of
\* that task has gone on.
C22_Witness ==
    /\ ready_obs = <<>>
    /\ lock_state["A"] = <<"UNKNOWN", "UNKNOWN">>
    /\ Len(tasks) = 1
    /\ tasks[1].pc = "debounce"
    /\ ~tasks[1].cancelled
    /\ tasks[1].remaining = 1
    /\ pending_state["A"] = <<"LOCKED", None>>
    /\ last_event = NoEvent

\* C23 (SpecTimed): the step that processes a state-changing observation
\* writes, on each axis of _pending_state, the incoming value when it is
\* stable and the baseline's value when it is not; so an axis whose baseline
\* holds a stable value holds a stable value afterwards.
C23_MergePerAxis ==
    [][ (ready_obs # <<>> /\ ready_obs' = Tail(ready_obs)) =>
          LET o == Head(ready_obs)
              base == Baseline(o.dev)
              lock_new == o.lock \in {"LOCKED", "UNLOCKED"} /\ o.lock # base[1]
              door_new == o.door \in {"OPENED", "CLOSED"} /\ o.door # base[2]
          IN
          (lock_new \/ door_new) =>
              /\ o.dev \in DOMAIN pending_state'
              /\ pending_state'[o.dev][1] =
                     IF o.lock \in {"LOCKED", "UNLOCKED"} THEN o.lock ELSE base[1]
              /\ pending_state'[o.dev][2] =
                     IF o.door \in {"OPENED", "CLOSED"} THEN o.door ELSE base[2]
              /\ base[1] # None => pending_state'[o.dev][1] \in {"LOCKED", "UNLOCKED"}
              /\ base[2] # None => pending_state'[o.dev][2] \in {"OPENED", "CLOSED"}
      ]_vars
\* C23: two state-changing observations of one burst led to the candidate
\* <<LOCKED, OPENED>>, and the adapter's last report, processed too, had a
\* transient lock value: LOCKED was not cleared.
C23_Witness ==
    /\ ready_obs = <<>>
    /\ lock_state["A"] = <<"UNKNOWN", "OPENED">>
    /\ Len(tasks) = 2
    /\ burst["A"].obs = 2
    /\ tasks[2].schedState = <<"LOCKED", "OPENED">>
    /\ tasks[2].pc = "debounce"
    /\ pending_state["A"] = <<"LOCKED", "OPENED">>


\* C24 (SpecTimed): the settle event published last carries on each axis the
\* value of that axis in _critical_state, the candidate committed with it,
\* and that value is a stable one or none at all: never a transient value.
C24_EventCarriesOnlyStable ==
    last_event.type = "lock_state" =>
        /\ last_event.state.locked \in {"LOCKED", "UNLOCKED", None}
        /\ last_event.state.door \in {"OPENED", "CLOSED", None}
        /\ last_event.state.locked = critical_state[last_event.lock_name][1]
        /\ last_event.state.door = critical_state[last_event.lock_name][2]


\* C25 (SpecTimed): the step that processes a state-changing observation
\* sets the reason of the device to "door" when the observation changed the
\* door axis and to "lock" when it changed the lock axis only, whatever the
\* reason was, and tracks a new task; the reason changes in no other step
\* but the end of the tracked task; a task that begins its debounce wait is
\* the tracked one and sleeps DOOR_DEBOUNCE_SECONDS when the reason is "door"
\* and LOCK_DEBOUNCE_SECONDS when it is "lock". So the delay of a settle task
\* is the one of the observation that scheduled it, the most recent
\* state-changing one of its device.
C25_DelayOfLatestChange ==
    /\ [][ /\ (ready_obs # <<>> /\ ready_obs' = Tail(ready_obs)) =>
                LET o == Head(ready_obs)
                    base == Baseline(o.dev)
                    lock_new == o.lock \in {"LOCKED", "UNLOCKED"} /\ o.lock # base[1]
                    door_new == o.door \in {"OPENED", "CLOSED"} /\ o.door # base[2]
                IN
                (lock_new \/ door_new) =>
                    /\ pending_reason'[o.dev] = IF door_new THEN "door" ELSE "lock"
                    /\ Len(tasks') = Len(tasks) + 1
                    /\ pending_tasks'[o.dev] = Len(tasks')
                    /\ tasks'[Len(tasks')].pc = "new"
           /\ \A d \in Locks :
                Get(pending_reason', d, None) # Get(pending_reason, d, None) =>
                    \/ Len(tasks') = Len(tasks) + 1 /\ pending_tasks'[d] = Len(tasks')
                    \/ /\ d \in DOMAIN pending_tasks
                       /\ d \notin DOMAIN pending_tasks'
                       /\ tasks'[pending_tasks[d]].pc = "done"
           /\ \A t \in DOMAIN tasks :
                (tasks[t].pc = "new" /\ tasks'[t].pc = "debounce") =>
                    /\ pending_tasks[tasks[t].dev] = t
                    /\ tasks[t].dev \in DOMAIN pending_reason
                    /\ tasks'[t].delay =
                           IF pending_reason[tasks[t].dev] = "door"
                           THEN DOOR_DEBOUNCE_SECONDS ELSE LOCK_DEBOUNCE_SECONDS
                    /\ tasks'[t].remaining = tasks'[t].delay
         ]_vars
    /\ [](\A t \in DOMAIN tasks :
             (Alive(t) /\ tasks[t].pc = "debounce") =>
                 tasks[t].delay = IF pending_reason[tasks[t].dev] = "door"
                                  THEN DOOR_DEBOUNCE_SECONDS
                                  ELSE LOCK_DEBOUNCE_SECONDS)
\* C25: in one burst a door change was followed by a change of the lock axis
\* only, and the task of the second has begun a wait of
\* LOCK_DEBOUNCE_SECONDS.
C25_Witness ==
    /\ Len(tasks) = 2
    /\ burst["A"].obs = 2
    /\ pending_state["A"][2] # None
    /\ Alive(2)
    /\ tasks[2].pc = "debounce"
    /\ tasks[2].delay = LOCK_DEBOUNCE_SECONDS
    /\ tasks[2].remaining = LOCK_DEBOUNCE_SECONDS


\* C26 (SpecLive): whenever a state-changing observation of device A has
\* been processed and its settle is still to come, there is a later state in
\* which no settle of A is waiting and the event published last is a settle
\* event of A that carries, on both axes, the candidate state of A.
C26_SettleEventFollows ==
    BurstOpen("A") ~>
        ( /\ ~BurstOpen("A")
          /\ last_event.type = "lock_state"
          /\ last_event.lock_name = "A"
          /\ last_event.state.locked = pending_state["A"][1]
          /\ last_event.state.door = pending_state["A"][2] )


\* C27 (SpecRefresh): for every device, when no settle task of the device is
\* scheduled and still short of its commit, the retained _pending_state
\* entry, if there is one, equals the _critical_state entry; hence the
\* baseline _on_state reads is _pending_state while a settle is pending and
\* _critical_state (or <<None, None>> before the first commit) otherwise.
C27_BaselineAsPrescribed ==
    \A d \in Locks :
        /\ (~BurstOpen(d) /\ d \in DOMAIN pending_state) =>
               /\ d \in DOMAIN critical_state
               /\ pending_state[d] = critical_state[d]
        /\ BurstOpen(d) => d \in DOMAIN pending_state
        /\ Baseline(d) = IF BurstOpen(d) THEN pending_state[d]
                         ELSE Get(critical_state, d, <<None, None>>)
\* C27: the first settle of A has committed and ended, a second change was
\* committed too, and an observation waits to be compared with the baseline
\* while no settle is pending and the candidate is still retained.
C27_Witness ==
    /\ Len(tasks) = 2
    /\ tasks[1].pc = "done"
    /\ tasks[2].pc = "reconcile"
    /\ ~BurstOpen("A")
    /\ pending_state["A"] = <<"UNLOCKED", None>>
    /\ critical_state["A"] = <<"UNLOCKED", None>>
    /\ ready_obs # <<>>


\* C28 (SpecQueue): the step in which the adapter calls back puts one
\* _on_state task, for the reported values, behind the tasks already queued
\* and touches nothing of the aggregation; candidate, reason and tracking
\* change only in a step that runs the first queued task, for the device of
\* that task, and that step does the whole of _on_state (candidate, reason,
\* cancellation, new tracked task) and takes just that task off the queue.
\* So, once the queue is drained, the baseline of the device holds the lock
\* value the adapter reported last.
C28_CallbackOnlyEnqueues ==
    /\ [][ /\ lock_state' # lock_state =>
                /\ \E d \in Locks :
                     ready_obs' = Append(ready_obs,
                                         [dev |-> d, lock |-> lock_state'[d][1],
                                          door |-> lock_state'[d][2]])
                /\ UNCHANGED aggVars
           /\ Len(ready_obs') > Len(ready_obs) => UNCHANGED aggVars
           /\ ( \/ pending_state' # pending_state
                \/ pending_reason' # pending_reason /\ Len(tasks') > Len(tasks)
                \/ Len(tasks') > Len(tasks) ) =>
                /\ ready_obs # <<>>
                /\ ready_obs' = Tail(ready_obs)
                /\ LET d == Head(ready_obs).dev IN
                   /\ \A e \in Locks \ {d} :
                         /\ Get(pending_state', e, None) = Get(pending_state, e, None)
                         /\ Get(pending_tasks', e, 0) = Get(pending_tasks, e, 0)
                   /\ pending_state'[d][1] = Head(ready_obs).lock
                   /\ pending_reason'[d] = "lock"
                   /\ pending_tasks'[d] = Len(tasks')
                   /\ Len(tasks') = Len(tasks) + 1
                   /\ \A t \in DOMAIN tasks :
                         (tasks[t].dev = d /\ tasks[t].pc # "done") =>
                             tasks'[t].cancelled
         ]_vars
    /\ [](ready_obs = <<>> => Baseline("A")[1] = lock_state["A"][1])
\* C28: two callbacks ran before the first _on_state task did, LOCKED then
\* UNLOCKED; both tasks have run since and the candidate is UNLOCKED.
C28_Witness ==
    /\ ready_obs = <<>>
    /\ Len(tasks) = 2
    /\ tasks[1].cancelled
    /\ tasks[1].pc = "new"
    /\ tasks[2].pc = "new"
    /\ lock_state["A"] = <<"UNLOCKED", "UNKNOWN">>
    /\ pending_state["A"] = <<"UNLOCKED", None>>


\* C29 (SpecStart): when the wait for a device's first update ends with a
\* timeout, an authentication error or a device error, the device is not
\* marked ready, LockManager.start() has not raised and waits for no device;
\* then the start of the next device in registration order can begin, or,
\* after the last device, start() can return; start() has returned only
\* when start() of every device was called and ended, with exactly the
\* devices whose first update arrived marked ready; and it has raised only
\* on a failure of another kind.
C29_FailedDeviceLeftUnready ==
    /\ [][ (Len(startup'.outcome) > Len(startup.outcome)
             /\ startup'.outcome[Len(startup'.outcome)] \in Caught) =>
              /\ startup.waiting = LockOrder[Len(startup'.outcome)]
              /\ startup.waiting \notin startup'.first_update_waited
              /\ startup'.first_update_waited = startup.first_update_waited
              /\ startup'.pc = "locks"
              /\ startup'.waiting = None
          ]_vars
    /\ []((startup.pc = "locks" /\ startup.waiting = None) =>
             IF Len(startup.outcome) < Len(LockOrder)
             THEN ENABLED LockStartBegin("ok")
             ELSE ENABLED StartReturn)
    /\ [](startup.pc = "done" =>
             /\ Len(startup.outcome) = Len(LockOrder)
             /\ startup.callbacks = Locks
             /\ startup.first_update_waited =
                    {LockOrder[i] : i \in {j \in DOMAIN LockOrder :
                                             startup.outcome[j] = "first_update"}})
    /\ [](startup.pc = "raised" =>
             \/ startup.outcome = <<>>
             \/ startup.outcome[Len(startup.outcome)] \notin
                    Caught \cup {"first_update"})
\* C29: the first device timed out, the second was started after it and is
\* ready, start() has returned, and the second device's report was settled.
C29_Witness ==
    /\ startup.pc = "done"
    /\ startup.outcome = <<"timeout", "first_update">>
    /\ startup.first_update_waited = {"B"}
    /\ critical_state = [d \in {"B"} |-> <<"LOCKED", None>>]


\* C30 (SpecRefresh): the semaphore is taken exactly when one operation
\* started through _with_ble_lock is executing or the semaphore has just
\* been handed to a waiter that is about to start its operation; an
\* operation executes only for a settle task that is refreshing or a caller
\* that is running; whoever waits for the semaphore waits behind such a
\* holder, and the holder can always take its next step. In the step in
\* which an operation ends (it returns, it raises, or its task is resumed
\* with its cancellation) the semaphore is freed or handed to the first
\* waiter, and a task cancelled while it waits leaves the queue without
\* touching the semaphore.
C30_GateHeldWhileOperating ==
    /\ [][ /\ \A o \in ops \ ops' :
                 IF sem_waiters = <<>>
                 THEN sem_value' = 1 /\ sem_waiters' = <<>>
                 ELSE /\ sem_value' = 0
                      /\ sem_waiters' = Tail(sem_waiters)
                      /\ LET w == Head(sem_waiters) IN
                         IF w[1] = "task" THEN tasks'[w[2]].pc = "granted"
                         ELSE callers'[w[2]].pc = "granted"
            /\ \A t \in DOMAIN tasks :
                 (tasks[t].pc = "gatewait" /\ tasks'[t].pc = "done") =>
                     /\ sem_value' = sem_value
                     /\ ops' = ops
                     /\ \A i \in DOMAIN sem_waiters' : sem_waiters'[i] # TaskOwner(t)
          ]_vars
    /\ [](LET holders ==
                 {o.owner : o \in ops}
                 \cup {TaskOwner(t) : t \in {u \in DOMAIN tasks :
                                                tasks[u].pc = "granted"}}
                 \cup {CallerOwner(k) : k \in {j \in Callers :
                                                  callers[j].pc = "granted"}}
           IN
           /\ sem_value = 1 - Cardinality(holders)
           /\ sem_value \in {0, 1}
           /\ \A o \in ops :
                 /\ o.gated
                 /\ \/ o.owner[1] = "task" /\ tasks[o.owner[2]].pc = "refreshing"
                    \/ o.owner[1] = "caller" /\ callers[o.owner[2]].pc = "running"
           /\ sem_waiters # <<>> => holders # {}
           /\ \A h \in holders :
                 IF h[1] = "task"
                 THEN ENABLED ( \/ SettleGranted(h[2])
                                \/ SettleRefreshDone(h[2])
                                \/ SettleCancelled(h[2]) )
                 ELSE ENABLED (CmdGranted(h[2]) \/ CmdDone(h[2])))
\* C30: task 1 was cancelled by a new observation while its refresh was
\* executing, and the caller for device B is queued behind it.
C30_Witness ==
    /\ Len(tasks) = 2
    /\ tasks[1].pc = "refreshing"
    /\ tasks[1].cancelled
    /\ \E o \in ops : o.owner = TaskOwner(1)
    /\ callers["k1"].pc = "gatewait"
    /\ sem_waiters = <<CallerOwner("k1")>>
    /\ sem_value = 0


\* C31 (SpecSnapshot): in every step in which _critical_state changes, one
\* settle event is published, for the device whose entry changed.
C31_CommitPublishes ==
    [][ critical_state' # critical_state =>
          /\ last_event'.seq = last_event.seq + 1
          /\ last_event'.type = "lock_state"
          /\ last_event'.lock_name \in DOMAIN critical_state'
          /\ \A d \in DOMAIN critical_state' \ {last_event'.lock_name} :
                d \in DOMAIN critical_state /\ critical_state'[d] = critical_state[d]
      ]_vars

\* C32 (SpecSecure): with a secret configured, a connection that is in the
\* client set, has a relayed event waiting for it, or has been sent a message
\* opened with a Bearer header whose credential is the secret.
C32_OnlyAuthenticatedReceive ==
    Truthy(auth_token) =>
      \A c \in Clients :
          (c \in clients \/ sends[c] # <<>> \/ conns[c].out.type # "none") =>
            LET h == conns[c].header IN
            /\ h.given
            /\ Len(h.text) >= Len(BearerPrefix)
            /\ SubSeq(h.text, 1, Len(BearerPrefix)) = BearerPrefix
            /\ Strip(SubSeq(h.text, Len(BearerPrefix) + 1, Len(h.text)))
                  = auth_token.text

\* C32: c1 was rejected and is sent nothing, while c2, which presented the
\* secret, has its response and the relayed settle event waiting for it.
C32_Witness ==
    /\ Truthy(auth_token)
    /\ conns["c1"].state = "rejected"
    /\ conns["c1"].out.type = "none" /\ sends["c1"] = <<>>
    /\ conns["c2"].frame = ListFrame
    /\ conns["c2"].out.type = "response"
    /\ Len(sends["c2"]) = 1 /\ sends["c2"][1].type = "event"


\* C33 (SpecClient): on a connection a frame is read only when no frame is
\* being handled; an object frame is answered in the step that reads it or,
\* for a lock / unlock that started its operation, by the one response sent
\* when the operation ends, before any other frame is read; a response goes
\* out in no other step, and it answers the frame read last (events may go
\* out in between).
C33_OneFrameAtATime ==
    /\ [][ \A c \in Clients :
             LET a == conns[c]
                 b == conns'[c]
                 reads == \/ b.frame # a.frame /\ b.frame # NoFrame
                          \/ a.pc = "recv" /\ b.pc = "op"
                 answers == /\ b.out.type = "response"
                            /\ b.out.request_id = b.frame.request_id
             IN
             /\ reads => a.pc = "recv"
             /\ (reads /\ b.frame.json = "object") =>
                   IF b.pc = "op" THEN b.out = a.out
                   ELSE b.pc = "recv" /\ answers
             /\ a.pc = "op" => b.frame = a.frame
             /\ (a.pc = "op" /\ b.pc # "op") =>
                   /\ b.pc = "recv"
                   /\ a.state = "open" => answers
             /\ (b.out # a.out /\ b.out.type = "response") =>
                   /\ answers
                   /\ \/ a.pc = "recv" /\ b.pc = "recv" /\ b.frame # NoFrame
                      \/ a.pc = "op" /\ b.pc = "recv"
          ]_vars
    /\ [](\A c \in Clients :
             /\ conns[c].pc = "op" =>
                   /\ conns[c].frame.json = "object"
                   /\ conns[c].frame.command \in {"lock", "unlock"}
             /\ Cardinality({o \in ops : o.owner = ConnOwner(c)})
                   = IF conns[c].pc = "op" THEN 1 ELSE 0)

\* C33: the response to an earlier command has gone out and the next
\* command, a lock, is being handled, its response still to come.
C33_Witness ==
    /\ conns["c1"].pc = "op"
    /\ conns["c1"].frame.command = "lock"
    /\ conns["c1"].out.type = "response"
    /\ conns["c1"].out.request_id # conns["c1"].frame.request_id


\* C34 (SpecReturn): when the debounce of a device's tracked settle task ends
\* on a candidate equal to the committed state, after a burst of two or more
\* changes, the step publishes one event, the only one of the burst, for that
\* device, leaves _critical_state as it was, and the event's state is the
\* committed state on both axes.
C34_ReturnBurstPublishesCommitted ==
    [][ \A d \in DOMAIN critical_state :
          LET t == Get(pending_tasks, d, 0) IN
          ( /\ t # 0
            /\ tasks[t].pc = "debounce" /\ tasks'[t].pc = "reconcile"
            /\ burst[d].obs >= 2
            /\ pending_state[d] = critical_state[d] ) =>
              /\ critical_state' = critical_state
              /\ last_event'.seq = last_event.seq + 1
              /\ last_event'.type = "lock_state"
              /\ last_event'.lock_name = d
              /\ burst'[d].events = 1
              /\ last_event'.state.locked = critical_state[d][1]
              /\ last_event'.state.door = critical_state[d][2]
      ]_vars


====
